---- MODULE Spec2Model ----
(***************************************************************************)
(* Verification model of pypeit/core/datacube.py: the voxel accumulator    *)
(* subpixellate, the grid builder create_wcs and the whitelight helpers.   *)
(*                                                                         *)
(* Floating-point values are modelled as exact rationals [n, d] in lowest  *)
(* terms; d = 0 stands for a non-finite value (NaN or Inf), which every    *)
(* arithmetic operation propagates and every histogram drops.              *)
(***************************************************************************)
EXTENDS Integers, Sequences, FiniteSets, TLC

\* ------------------------------------------------------------------------
\* Bounds of the model
\* ------------------------------------------------------------------------
\* Largest subpixellation factor tried on either axis.
MaxSubpixel == 2
\* Number of detector rows (spectral pixels) of every slit.
NSpecPix == 2
\* Number of times subpixellate is called on the same inputs.
MaxCalls == 2
\* Largest number of wavelength slices of the cube given to the whitelight
\* collapse.
MaxWave == 3
\* Largest number of pieces a file name is built from.
MaxParts == 3

\* ------------------------------------------------------------------------
\* Exact arithmetic standing in for float64
\* ------------------------------------------------------------------------
Abs(x) == IF x < 0 THEN -x ELSE x

RECURSIVE GCD(_, _)
GCD(a, b) == IF b = 0 THEN a ELSE GCD(b, a % b)

NaN == [n |-> 0, d |-> 0]

Q(num, den) ==
    IF den = 0 THEN NaN
    ELSE LET g == GCD(Abs(num), Abs(den))
             s == IF den < 0 THEN -1 ELSE 1
         IN  [n |-> s * (num \div g), d |-> s * (den \div g)]

QI(i) == [n |-> i, d |-> 1]
Zero == QI(0)
One == QI(1)
Half == Q(1, 2)
IsFinite(a) == a.d # 0
QAdd(a, b) == IF a.d = 0 \/ b.d = 0 THEN NaN ELSE Q(a.n * b.d + b.n * a.d, a.d * b.d)
QNeg(a) == [n |-> -a.n, d |-> a.d]
QSub(a, b) == QAdd(a, QNeg(b))
QMul(a, b) == IF a.d = 0 \/ b.d = 0 THEN NaN ELSE Q(a.n * b.n, a.d * b.d)
\* x / 0 is Inf or NaN in float64: both are the non-finite value here.
QDiv(a, b) == IF a.d = 0 \/ b.d = 0 \/ b.n = 0 THEN NaN ELSE Q(a.n * b.d, a.d * b.n)
\* Comparisons with a non-finite operand are false, as for NaN.
QLt(a, b) == a.d # 0 /\ b.d # 0 /\ a.n * b.d < b.n * a.d
QLe(a, b) == a.d # 0 /\ b.d # 0 /\ a.n * b.d <= b.n * a.d
\* int() / floor of a finite value (\div rounds towards minus infinity).
QFloor(a) == a.n \div a.d

RECURSIVE SumQ(_)
SumQ(s) == IF s = <<>> THEN Zero ELSE QAdd(Head(s), SumQ(Tail(s)))

RECURSIVE SumInt(_)
SumInt(s) == IF s = <<>> THEN 0 ELSE Head(s) + SumInt(Tail(s))

\* ------------------------------------------------------------------------
\* Library routines used by datacube.py
\* ------------------------------------------------------------------------
\* utils.inverse: the safe inverse, 1/x with 1/0 = 0.
inverse(a) == IF a.d # 0 /\ a.n = 0 THEN Zero ELSE QDiv(One, a)

\* np.arange(start, stop, step): start + k*step for k < ceil((stop-start)/step).
arange(start, stop, step) ==
    LET span == QDiv(QSub(stop, start), step)
        len == IF span.n <= 0 THEN 0 ELSE -((-span.n) \div span.d)
    IN  [k \in 1..len |-> QAdd(start, QMul(QI(k - 1), step))]

\* np.argsort of a short array (insertion sort: stable), as 1-based indices.
RECURSIVE InsertIdx(_, _, _)
InsertIdx(srt, i, xs) ==
    IF srt = <<>> THEN <<i>>
    ELSE IF QLt(xs[i], xs[Head(srt)]) THEN <<i>> \o srt
         ELSE <<Head(srt)>> \o InsertIdx(Tail(srt), i, xs)

RECURSIVE argsortUpTo(_, _)
argsortUpTo(xs, k) ==
    IF k = 0 THEN <<>> ELSE InsertIdx(argsortUpTo(xs, k - 1), k, xs)

argsort(xs) == argsortUpTo(xs, Len(xs))

\* np.searchsorted(x, v), side='left': the number of elements below v.
searchsorted(xs, v) == Cardinality({i \in 1..Len(xs) : QLt(xs[i], v)})

\* ndarray.clip(lo, hi) = minimum(maximum(v, lo), hi): hi wins when lo > hi.
clip(v, lo, hi) ==
    LET m == IF v < lo THEN lo ELSE v IN IF m > hi THEN hi ELSE m

\* scipy interp1d(x, y, kind='linear', fill_value='extrapolate')(v) for sorted
\* x of length >= 1 (_call_linear).  Index -1 wraps to the last element; equal
\* neighbouring abscissae give 0/0.
interp1d(xs, ys, v) ==
    LET hi0 == clip(searchsorted(xs, v), 1, Len(xs) - 1)
        lo0 == hi0 - 1
        hi == hi0 + 1
        lo == IF lo0 < 0 THEN Len(xs) ELSE lo0 + 1
        slope == QDiv(QSub(ys[hi], ys[lo]), QSub(xs[hi], xs[lo]))
    IN  QAdd(QMul(slope, QSub(v, xs[lo])), ys[lo])

\* fast_histogram: the bin of one coordinate for nb regular bins on [lo, hi);
\* -1 when the coordinate is outside the range or not finite.
BinOf(x, lo, hi, nb) ==
    IF QLe(lo, x) /\ QLt(x, hi)
    THEN QFloor(QMul(QSub(x, lo), QDiv(QI(nb), QSub(hi, lo))))
    ELSE -1

\* np.repeat(a, n): every element n times in a row.
repeat(a, n) == [s \in 1..(Len(a) * n) |-> a[((s - 1) \div n) + 1]]

\* The bin address of one sample of histogramdd(sample, bins=outshape,
\* range=binrng): a triple of bin numbers, or <<-1,-1,-1>> when any
\* coordinate is outside its range.
VoxelOf(coord, outshape, binrng) ==
    LET b == [a \in 1..3 |-> BinOf(coord[a], binrng[a][1], binrng[a][2], outshape[a])]
    IN  IF \E a \in 1..3 : b[a] = -1 THEN <<-1, -1, -1>> ELSE b

Voxels(outshape) ==
    (0..(outshape[1] - 1)) \X (0..(outshape[2] - 1)) \X (0..(outshape[3] - 1))

RECURSIVE SumInBin(_, _, _, _)
SumInBin(addr, weights, v, k) ==
    IF k = 0 THEN Zero
    ELSE IF addr[k] = v THEN QAdd(SumInBin(addr, weights, v, k - 1), weights[k])
         ELSE SumInBin(addr, weights, v, k - 1)

\* Faulty variant: the last sample is left out of the histogram.
histogramdd_droplast(addr, outshape, weights) ==
    [v \in Voxels(outshape) |-> SumInBin(addr, weights, v, Len(addr) - 1)]

\* fast_histogram.histogramdd(sample, bins, range, weights), given the bin
\* address of every sample: the sum of the weights of the samples of each bin.
histogramdd(addr, outshape, weights) ==
    [v \in Voxels(outshape) |-> SumInBin(addr, weights, v, Len(addr))]

\* ------------------------------------------------------------------------
\* Inputs of subpixellate
\* ------------------------------------------------------------------------
\* spat_id of the slits that exist on the detector, in detector order.
SlitIds == <<10, 20>>
\* Detector columns of one slit.
SlitColumns == {0, 1}
NCols == Cardinality(SlitColumns)

SlotOf(spatid) == CHOOSE k \in 1..Len(SlitIds) : SlitIds[k] = spatid

\* Tilt of detector pixel (spec, spat): fraction of the spectral axis.
TiltAt(specpos, spatpos) == Q(4 * specpos + (spatpos % NCols), 4 * (NSpecPix - 1))

\* A frame's tilts image: tilts[specpos, spatpos].
TiltsFrame ==
    [p \in (0..(NSpecPix - 1)) \X (0..(NCols * Len(SlitIds) - 1)) |-> TiltAt(p[1], p[2])]

\* A frame's SlitTraceSet.
SlitTraceSet(ids) == [spat_id |-> ids, nslits |-> Len(ids), nspec |-> NSpecPix]

\* A frame's AlignmentSplines: per slit index, the detector column at which
\* the slit starts, and the shear of the trace with the spectral position.
AlignmentSplines(ids) ==
    [origin |-> [k \in 1..Len(ids) |-> NCols * (SlotOf(ids[k]) - 1)], shear |-> Q(1, 4)]

\* AlignmentSplines.transform(slitnum, spat, spec): position along the slit.
transform(at, slitnum, spat, spec) ==
    QAdd(QSub(spat, QI(at.origin[slitnum + 1])), QMul(at.shear, spec))

\* A frame's DARcorrection: a shift that grows with wavelength (none for the
\* first frame).
DARcorrection(f) == [ra_slope |-> Q(f, 2), dec_slope |-> Zero]

\* DARcorrection.correction(wave) -> (ra_corr, dec_corr).
correction(dar, wave) == <<QMul(dar.ra_slope, wave), QMul(dar.dec_slope, wave)>>

\* output_wcs.wcs_world2pix(world, 0) of the WCS of generate_WCS: crpix = 0 in
\* the 1-based FITS convention, so the reference value sits at 0-based pixel
\* -1 (small-angle form of the TAN projection).
wcs_world2pix(w, world) ==
    [a \in 1..3 |-> QSub(QDiv(QSub(world[a], w.crval[a]), w.cdelt[a]), One)]

\* The value patterns of the per-pixel arrays.
ValuePatterns ==
    { [sci |-> "unit", ivar |-> "unit", wght |-> "unit"],
      [sci |-> "graded", ivar |-> "graded", wght |-> "frame"],
      [sci |-> "graded", ivar |-> "rowzero", wght |-> "unit"],
      [sci |-> "unit", ivar |-> "unit", wght |-> "rowzero"] }

SciOf(kind, f, spec, col) == IF kind = "unit" THEN 1 ELSE 1 + spec + 2 * f + col
IvarOf(kind, f, spec, col) ==
    IF kind = "unit" THEN 1 ELSE IF kind = "rowzero" THEN spec ELSE 1 + col
WghtOf(kind, f, spec, col) ==
    IF kind = "unit" THEN 1 ELSE IF kind = "frame" THEN 1 + f ELSE spec

\* Good-pixel patterns of the first slit of the first frame.
GpmPatterns == {"all", "dropone", "single"}

IsGood(gpm, f, slot, spec, col) ==
    \/ gpm = "all"
    \/ f # 0 \/ slot # 1
    \/ gpm = "dropone" /\ ~(spec = 0 /\ col = 0)
    \/ gpm = "single" /\ spec = 0 /\ col = 0

\* One row of the flattened per-pixel arrays (all_ra, all_dec, all_wave,
\* all_sci, all_ivar, all_wghts, all_spatpos, all_specpos, all_spatid,
\* all_idx): the pixel of frame f, slit spatid, row spec, column col.  The sky
\* position follows the slit (RA along it, Dec across the slits, one voxel of
\* dither per frame), the wavelength follows the tilt.
PixelRecord(f, spatid, spec, col, vp) ==
    LET slot == SlotOf(spatid)
        spat == NCols * (slot - 1) + col
    IN  [ra |-> QAdd(QI(f), QAdd(QI(col), Q(spec, 4))),
         dec |-> QI(slot - 1),
         wave |-> QMul(TiltAt(spec, spat), QI(NSpecPix - 1)),
         sci |-> SciOf(vp.sci, f, spec, col),
         ivar |-> IvarOf(vp.ivar, f, spec, col),
         wght |-> WghtOf(vp.wght, f, spec, col),
         spatpos |-> spat, specpos |-> spec, spatid |-> spatid, idx |-> f]

\* The pixel table of npf frames with the slits pslits, frame after frame.
PixelTable(npf, pslits, vp, gpm) ==
    LET L == Len(pslits)
        per == L * NSpecPix * NCols
        all == [i \in 1..(npf * per) |->
                  LET j == i - 1
                      f == j \div per
                      k == ((j \div (NSpecPix * NCols)) % L) + 1
                      spec == (j \div NCols) % NSpecPix
                      col == j % NCols
                  IN  [good |-> IsGood(gpm, f, SlotOf(pslits[k]), spec, col),
                       rec |-> PixelRecord(f, pslits[k], spec, col, vp)]]
        kept == SelectSeq(all, LAMBDA p : p.good)
    IN  [i \in 1..Len(kept) |-> kept[i].rec]

\* np.arange(1 + n) - 0.5: the n + 1 bin edges of an axis of n voxels.
BinEdges(n) == [k \in 1..(n + 1) |-> QSub(QI(k - 1), Half)]

\* The output grid handed to subpixellate: a WCS whose reference value is one
\* voxel below the first detector pixel (so that pixel lands in voxel 0) and
\* the bin edges of a cube of the given shape.
GridWCS == [crval |-> <<QI(-1), QI(-1), QI(-1)>>, cdelt |-> <<One, One, One>>]
GridShapes == {<<2, 2, 2>>}

\* The ways the per-frame collaborators are passed: each of tilts, slits,
\* astrom_trans, all_dar is a list (of some length) or a single object, and
\* all_idx is given or None.
Arg(islist, items) == [islist |-> islist, items |-> items]

Frames(nf, ids) ==
    [tilts |-> [f \in 1..nf |-> TiltsFrame],
     slits |-> [f \in 1..nf |-> SlitTraceSet(ids)],
     astrom_trans |-> [f \in 1..nf |-> AlignmentSplines(ids)],
     all_dar |-> [f \in 1..nf |-> DARcorrection(f - 1)]]

FrameCounts == {1, 2}
SlitLists == {<<10>>, <<10, 20>>}

\* The scenes tried: the pixel table holds npf frames with the slits ps, the
\* collaborator lists hold nf frames with the slits ids.  Every value pattern
\* on tables that match the lists, the bad-pixel patterns on graded values,
\* and unit values on tables that do not match the lists.
GradedPattern == [sci |-> "graded", ivar |-> "graded", wght |-> "frame"]
UnitPattern == [sci |-> "unit", ivar |-> "unit", wght |-> "unit"]
Scenes ==
    { [npf |-> nf, ps |-> ids, nf |-> nf, ids |-> ids, vp |-> vp, gpm |-> "all"] :
        nf \in FrameCounts, ids \in SlitLists, vp \in ValuePatterns }
    \cup
    { [npf |-> nf, ps |-> ids, nf |-> nf, ids |-> ids, vp |-> GradedPattern, gpm |-> g] :
        nf \in FrameCounts, ids \in SlitLists, g \in GpmPatterns }
    \cup
    { [npf |-> npf, ps |-> ps, nf |-> nf, ids |-> ids, vp |-> UnitPattern, gpm |-> "all"] :
        npf \in FrameCounts, ps \in SlitLists, nf \in FrameCounts, ids \in SlitLists }

\* Calls whose collaborators are consistent lists, with all_idx.
ListInputs ==
    { [pix |-> PixelTable(sc.npf, sc.ps, sc.vp, sc.gpm),
       tilts |-> Arg(TRUE, Frames(sc.nf, sc.ids).tilts),
       slits |-> Arg(TRUE, Frames(sc.nf, sc.ids).slits),
       astrom_trans |-> Arg(TRUE, Frames(sc.nf, sc.ids).astrom_trans),
       all_dar |-> Arg(TRUE, Frames(sc.nf, sc.ids).all_dar),
       idx_given |-> TRUE,
       output_wcs |-> GridWCS, bins |-> [a \in 1..3 |-> BinEdges(shp[a])],
       spec_subpixel |-> n1, spat_subpixel |-> n2] :
      sc \in Scenes, shp \in GridShapes,
      n1 \in 1..MaxSubpixel, n2 \in 1..MaxSubpixel }

BaseInput ==
    CHOOSE i \in ListInputs :
        /\ Len(i.tilts.items) = 1 /\ i.slits.items[1].nslits = 1
        /\ Len(i.pix) = NSpecPix * NCols
        /\ \A k \in 1..Len(i.pix) : i.pix[k].sci = 1 /\ i.pix[k].ivar = 1 /\ i.pix[k].wght = 1
        /\ i.spec_subpixel = 1 /\ i.spat_subpixel = 1

\* Calls with a single frame passed as bare objects or as lists without
\* all_idx, and inconsistent calls: lists of unequal length, lists mixed with
\* bare objects, two frames without all_idx.
OtherInputs ==
    LET two == Frames(2, <<10>>)
    IN  { [BaseInput EXCEPT !.tilts.islist = FALSE, !.slits.islist = FALSE,
                            !.astrom_trans.islist = FALSE, !.all_dar.islist = FALSE,
                            !.idx_given = g] : g \in BOOLEAN }
        \cup { [BaseInput EXCEPT !.idx_given = FALSE] }
        \cup { [BaseInput EXCEPT !.tilts.items = two.tilts],
               [BaseInput EXCEPT !.slits.items = two.slits],
               [BaseInput EXCEPT !.astrom_trans.items = two.astrom_trans],
               [BaseInput EXCEPT !.all_dar.items = two.all_dar],
               [BaseInput EXCEPT !.tilts.islist = FALSE],
               [BaseInput EXCEPT !.all_dar.islist = FALSE],
               [BaseInput EXCEPT !.tilts.items = two.tilts, !.slits.items = two.slits,
                                 !.astrom_trans.items = two.astrom_trans,
                                 !.all_dar.items = two.all_dar, !.idx_given = FALSE] }

Inputs == ListInputs \cup OtherInputs

\* ------------------------------------------------------------------------
\* subpixellate
\* ------------------------------------------------------------------------
VARIABLES
    inp,        \* the arguments of the call
    pc,         \* "call", "loop", "normalise", "done", "raised"
    ncall,      \* number of the current call
    numframes,  \* local numframes
    all_idx,    \* local all_idx (one entry per pixel)
    fr, sl,     \* the loop variables
    flxcube, varcube, normcube, bpmcube,
    prev,       \* what the previous call returned
    hits,       \* history: the pixel and the bin address of every subpixel
                \* histogrammed so far in this call
    call        \* the last call of one of the helper functions: its
                \* arguments and what it returned

subvars == <<inp, pc, ncall, numframes, all_idx, fr, sl,
             flxcube, varcube, normcube, bpmcube, prev, hits>>
vars == <<subvars, call>>

None == [given |-> FALSE]
Some(x) == [given |-> TRUE, val |-> x]
NoCall == [fn |-> "none"]

NoCube == <<>>

\* The four collaborator arguments, in the order the code tests them.
Collaborators(in) == <<in.tilts, in.slits, in.astrom_trans, in.all_dar>>

\* Faulty variant: lists of unequal length and a missing all_idx are let through.
CheckArgsLenient(in) ==
    IF \A k \in 1..4 : Collaborators(in)[k].islist THEN "lists"
    ELSE IF \A k \in 1..4 : ~Collaborators(in)[k].islist THEN "single"
    ELSE "error_mixed"

\* Faulty variant: a number of distinct frame indices other than the number
\* of frames is an error.
CheckArgsStrict(in) ==
    IF CheckArgsLenient(in) = "lists"
       /\ \A k \in 2..4 : Len(Collaborators(in)[k].items) = Len(in.tilts.items)
       /\ in.idx_given
       /\ Cardinality({in.pix[p].idx : p \in 1..Len(in.pix)}) # Len(in.tilts.items)
    THEN "error_frames"
    ELSE IF CheckArgsLenient(in) = "lists"
            /\ \E k \in 2..4 : Len(Collaborators(in)[k].items) # Len(in.tilts.items)
    THEN "error_length"
    ELSE IF CheckArgsLenient(in) = "lists" /\ ~in.idx_given /\ Len(in.tilts.items) # 1
    THEN "error_all_idx"
    ELSE CheckArgsLenient(in)

\* The outcome of the argument checks: "lists", "single" or the error raised.
CheckArgs(in) ==
    LET c == Collaborators(in)
    IN  IF \A k \in 1..4 : c[k].islist
        THEN IF \E k \in 2..4 : Len(c[k].items) # Len(c[1].items) THEN "error_length"
             ELSE IF ~in.idx_given /\ Len(c[1].items) # 1 THEN "error_all_idx"
             ELSE "lists"
        ELSE IF \A k \in 1..4 : ~c[k].islist THEN "single"
        ELSE "error_mixed"

outshape(in) == [a \in 1..3 |-> Len(in.bins[a]) - 1]
binrng(in) == [a \in 1..3 |-> <<in.bins[a][1], in.bins[a][Len(in.bins[a])]>>]

ZeroCube(in) == [v \in Voxels(outshape(in)) |-> Zero]

\* Faulty variant: an accumulator that outlives the call is reused.
StaleCube(old, in) == IF old = NoCube THEN ZeroCube(in) ELSE old

\* np.zeros(outshape): the accumulator a call starts from, whatever the
\* previous call left behind.
FreshCube(old, in) == ZeroCube(in)

\* Faulty variant: the offsets of the lower edges of the subpixels,
\* k/n - 1/2.
spec_offs_edges(in) ==
    LET a == arange(Zero, One, Q(1, in.spec_subpixel))
    IN  [k \in 1..Len(a) |-> QSub(a[k], Half)]

\* Divide each pixel into subpixels.
spec_offs(in) ==
    LET a == arange(Q(1, 2 * in.spec_subpixel), One, Q(1, in.spec_subpixel))
    IN  [k \in 1..Len(a) |-> QSub(a[k], Half)]
spat_offs(in) ==
    LET a == arange(Q(1, 2 * in.spat_subpixel), One, Q(1, in.spat_subpixel))
    IN  [k \in 1..Len(a) |-> QSub(a[k], Half)]
\* np.meshgrid(spat_offs, spec_offs), flattened row by row.
spat_x(in) ==
    LET xo == spat_offs(in)
        yo == spec_offs(in)
    IN  [e \in 1..(Len(yo) * Len(xo)) |-> xo[((e - 1) % Len(xo)) + 1]]
spec_y(in) ==
    LET xo == spat_offs(in)
        yo == spec_offs(in)
    IN  [e \in 1..(Len(yo) * Len(xo)) |-> yo[((e - 1) \div Len(xo)) + 1]]
num_subpixels(in) == in.spec_subpixel * in.spat_subpixel
area(in) == Q(1, num_subpixels(in))
all_wght_subpix(in) ==
    LET a == area(in) IN [p \in 1..Len(in.pix) |-> QMul(QI(in.pix[p].wght), a)]
all_var(in) == [p \in 1..Len(in.pix) |-> inverse(QI(in.pix[p].ivar))]

\* Faulty variant: the pixels of the slit in every frame.
this_sl_anyframe(in, aidx, f, spatid) ==
    SelectSeq([p \in 1..Len(in.pix) |-> p], LAMBDA p : in.pix[p].spatid = spatid)

\* np.where((all_spatid == spatid) & (all_idx == fr)): the pixels of one
\* (frame, slit) pair, in table order.
this_sl(in, aidx, f, spatid) ==
    SelectSeq([p \in 1..Len(in.pix) |-> p],
              LAMBDA p : in.pix[p].spatid = spatid /\ aidx[p] = f)

\* Line 1473: the spectral pixel position of each pixel of the pair.
yspl(in, sel, f) ==
    [i \in 1..Len(sel) |->
        QMul(in.tilts.items[f + 1][<<in.pix[sel[i]].specpos, in.pix[sel[i]].spatpos>>],
             QI(in.slits.items[f + 1].nspec - 1))]

\* Lines 1475, 1490, 1491: all_wave[this_sl], all_ra[this_sl], all_dec[this_sl].
wspl(in, sel) == [i \in 1..Len(sel) |-> in.pix[sel[i]].wave]
tmp_ra(in, sel) == [i \in 1..Len(sel) |-> in.pix[sel[i]].ra]
tmp_dec(in, sel) == [i \in 1..Len(sel) |-> in.pix[sel[i]].dec]

\* Line 1487: the spatial location of each pixel centre of slit number s.
spatpos(in, sel, f, s) ==
    [i \in 1..Len(sel) |->
        transform(in.astrom_trans.items[f + 1], s,
                  QI(in.pix[sel[i]].spatpos), QI(in.pix[sel[i]].specpos))]

\* a[order]: the array a taken in the order of an argsort.
Take(a, order) == [i \in 1..Len(order) |-> a[order[i]]]

\* Lines 1481, 1497-1500: the DAR correction added to the interpolated
\* position of one subpixel, then the conversion to voxel coordinates.
SubpixelVoxel(w, dar, this_wave, this_ra, this_dec) ==
    wcs_world2pix(w, <<QAdd(this_ra, correction(dar, this_wave)[1]),
                       QAdd(this_dec, correction(dar, this_wave)[2]),
                       this_wave>>)

\* Lines 1479, 1494, 1495: the three splines evaluated at one subpixel.
SubpixelCoord(w, dar, wx, wy, sx, ray, decy, tiltpos, spatpos_subpix) ==
    SubpixelVoxel(w, dar, interp1d(wx, wy, tiltpos),
                  interp1d(sx, ray, spatpos_subpix), interp1d(sx, decy, spatpos_subpix))

\* Lines 1474, 1483-1486: subpixel t (pixel after pixel, the subpixels of one
\* pixel in meshgrid order) of the pair, given the sorted spline nodes.
SplineCoords(in, sel, f, s, ys, wx, wy, sx, ray, decy, sub_x, sub_y) ==
    [t \in 1..(Len(sel) * Len(sub_y)) |->
        SubpixelCoord(in.output_wcs, in.all_dar.items[f + 1], wx, wy, sx, ray, decy,
            QAdd(ys[((t - 1) \div Len(sub_y)) + 1], sub_y[((t - 1) % Len(sub_y)) + 1]),
            transform(in.astrom_trans.items[f + 1], s,
                QAdd(QI(in.pix[sel[((t - 1) \div Len(sub_y)) + 1]].spatpos),
                     sub_x[((t - 1) % Len(sub_y)) + 1]),
                QAdd(QI(in.pix[sel[((t - 1) \div Len(sub_y)) + 1]].specpos),
                     sub_y[((t - 1) % Len(sub_y)) + 1])))]

\* Lines 1476-1477, 1489-1493: the nodes of the three splines, sorted.
SortedCoords(in, sel, f, s, ys, asrt, sp, ssrt) ==
    SplineCoords(in, sel, f, s, ys, Take(ys, asrt), Take(wspl(in, sel), asrt),
                 Take(sp, ssrt), Take(tmp_ra(in, sel), ssrt), Take(tmp_dec(in, sel), ssrt),
                 spat_x(in), spec_y(in))

PairCoords(in, sel, f, s, ys, sp) ==
    SortedCoords(in, sel, f, s, ys, argsort(ys), sp, argsort(sp))

\* The voxel coordinates (vox_coord) of every subpixel of the pixels sel of
\* frame f (0-based), slit number s (0-based).
vox_coord(in, sel, f, s) ==
    PairCoords(in, sel, f, s, yspl(in, sel, f), spatpos(in, sel, f, s))

\* The bin address of every subpixel of one (frame, slit) pair.
SlitAddr(in, sel, f, s) ==
    LET vc == vox_coord(in, sel, f, s)
        shp == outshape(in)
        rng == binrng(in)
    IN  [t \in 1..Len(vc) |-> VoxelOf(vc[t], shp, rng)]

\* Faulty variant: the histogram replaces the accumulator (= instead of +=).
CubeAssign(a, b) == b

\* cube += histogram.
CubeAdd(a, b) == [v \in DOMAIN a |-> QAdd(a[v], b[v])]

\* The weights of the three histograms of one pair, per pixel of the pair.
FluxWeights(in, sel) ==
    LET w == all_wght_subpix(in)
    IN  [i \in 1..Len(sel) |-> QMul(QI(in.pix[sel[i]].sci), w[sel[i]])]
\* Faulty variant: the variance is weighted by the subpixel weight, not by
\* its square.
VarWeightsLinear(in, sel) ==
    LET w == all_wght_subpix(in)
        var == all_var(in)
    IN  [i \in 1..Len(sel) |-> QMul(var[sel[i]], w[sel[i]])]

\* Faulty variant: every subpixel carries the variance of the whole pixel
\* weight times the subpixel weight.
VarWeightsUnsplit(in, sel) ==
    LET w == all_wght_subpix(in)
        var == all_var(in)
    IN  [i \in 1..Len(sel) |-> QMul(var[sel[i]], QMul(QI(in.pix[sel[i]].wght), w[sel[i]]))]

VarWeights(in, sel) ==
    LET w == all_wght_subpix(in)
        var == all_var(in)
    IN  [i \in 1..Len(sel) |-> QMul(var[sel[i]], QMul(w[sel[i]], w[sel[i]]))]
\* Faulty variant: the pixel weight is not divided among the subpixels.
NormWeightsWhole(in, sel) == [i \in 1..Len(sel) |-> QI(in.pix[sel[i]].wght)]

NormWeights(in, sel) ==
    LET w == all_wght_subpix(in)
    IN  [i \in 1..Len(sel) |-> w[sel[i]]]

\* What one pass of the slit loop adds to the three cubes.
SlitContribution(in, sel, addr) ==
    LET n == num_subpixels(in)
        shp == outshape(in)
    IN  [flx |-> histogramdd(addr, shp, repeat(FluxWeights(in, sel), n)),
         var |-> histogramdd(addr, shp, repeat(VarWeights(in, sel), n)),
         norm |-> histogramdd(addr, shp, repeat(NormWeights(in, sel), n))]

\* Faulty variant: the flux cube is returned as accumulated.
NormaliseFluxSkip(flx, norm) == flx

\* Faulty variant: the variance is divided by the normalisation once.
NormaliseVarOnce(var, norm) == [v \in DOMAIN var |-> QMul(var[v], inverse(norm[v]))]

\* Faulty variant: every voxel without flux is flagged.
BadPixelMaskAll(norm) == [v \in DOMAIN norm |-> 1]

\* Normalise the datacube and variance cube.
NormaliseFlux(flx, norm) == [v \in DOMAIN flx |-> QMul(flx[v], inverse(norm[v]))]
NormaliseVar(var, norm) ==
    [v \in DOMAIN var |-> QMul(var[v], QMul(inverse(norm[v]), inverse(norm[v])))]
BadPixelMask(norm) == [v \in DOMAIN norm |-> IF norm[v] = Zero THEN 1 ELSE 0]

InitSub ==
    /\ inp \in Inputs
    /\ pc = "call"
    /\ ncall = 1
    /\ numframes = 0
    /\ all_idx = <<>>
    /\ fr = 0 /\ sl = 0
    /\ flxcube = NoCube /\ varcube = NoCube /\ normcube = NoCube /\ bpmcube = NoCube
    /\ prev = [pc |-> "none"]
    /\ hits = <<>>
    /\ call = NoCall

\* Lines 1418-1458: the argument checks and the fresh output arrays.
SubpixellateBegin ==
    /\ pc = "call"
    /\ LET chk == CheckArgs(inp)
       IN  IF chk \in {"lists", "single"}
           THEN /\ numframes' = IF chk = "lists" THEN Len(inp.tilts.items) ELSE 1
                /\ all_idx' = IF chk = "lists" /\ inp.idx_given
                              THEN [p \in 1..Len(inp.pix) |-> inp.pix[p].idx]
                              ELSE [p \in 1..Len(inp.pix) |-> 0]
                /\ flxcube' = FreshCube(flxcube, inp)
                /\ varcube' = FreshCube(varcube, inp)
                /\ normcube' = FreshCube(normcube, inp)
                /\ fr' = 0 /\ sl' = 0
                /\ pc' = "loop"
           ELSE /\ pc' = "raised"
                /\ UNCHANGED <<numframes, all_idx, flxcube, varcube, normcube, fr, sl>>
    /\ hits' = <<>>
    /\ UNCHANGED <<inp, ncall, bpmcube, prev, call>>

\* Faulty variant: the counts of the pair are weighted in place
\* (all_sci[this_sl] *= all_wghts[this_sl]).
CallerArraysWeighted(in, sel) ==
    [in EXCEPT !.pix = [p \in 1..Len(in.pix) |->
                           IF \E i \in 1..Len(sel) : sel[i] = p
                           THEN [in.pix[p] EXCEPT !.sci = @ * in.pix[p].wght]
                           ELSE in.pix[p]]]

\* The caller's arguments after one pass of the slit loop (lines 1471-1506):
\* all_ra[this_sl], all_sci[this_sl] * ... and the like are new arrays, += is
\* applied to this_ra, this_dec and the three accumulators only, and the
\* collaborators are only read, so no argument is written.
CallerArrays(in, sel) == in

\* Lines 1465-1506: one pass of the loop over the slits of the exposures.
\* interp1d raises ValueError when the pair has no pixel.
ResampleSlit ==
    /\ pc = "loop"
    /\ \E sel \in {this_sl(inp, all_idx, fr, inp.slits.items[fr + 1].spat_id[sl + 1])} :
         IF sel = <<>>
         THEN /\ pc' = "raised"
              /\ UNCHANGED <<inp, flxcube, varcube, normcube, fr, sl, hits>>
         ELSE \E addr \in {SlitAddr(inp, sel, fr, sl)} :
              \E c \in {SlitContribution(inp, sel, addr)} :
                /\ inp' = CallerArrays(inp, sel)
                /\ hits' = hits \o [t \in 1..Len(addr) |->
                                      [pix |-> sel[((t - 1) \div (Len(addr) \div Len(sel))) + 1],
                                       vox |-> addr[t]]]
                /\ flxcube' = CubeAdd(flxcube, c.flx)
                /\ varcube' = CubeAdd(varcube, c.var)
                /\ normcube' = CubeAdd(normcube, c.norm)
                /\ IF sl + 1 < Len(inp.slits.items[fr + 1].spat_id)
                   THEN sl' = sl + 1 /\ fr' = fr /\ pc' = pc
                   ELSE IF fr + 1 < numframes
                        THEN sl' = 0 /\ fr' = fr + 1 /\ pc' = pc
                        ELSE sl' = sl /\ fr' = fr /\ pc' = "normalise"
    /\ UNCHANGED <<ncall, numframes, all_idx, bpmcube, prev, call>>

\* Lines 1507-1515: normalise and return.
Normalise ==
    /\ pc = "normalise"
    /\ flxcube' = NormaliseFlux(flxcube, normcube)
    /\ varcube' = NormaliseVar(varcube, normcube)
    /\ bpmcube' = BadPixelMask(normcube)
    /\ pc' = "done"
    /\ UNCHANGED <<inp, ncall, numframes, all_idx, fr, sl, normcube, prev, hits, call>>

\* What the caller holds when the call has ended.
Returned ==
    IF pc = "done" THEN [pc |-> "done", flxcube |-> flxcube, varcube |-> varcube,
                         bpmcube |-> bpmcube]
    ELSE [pc |-> "raised"]

\* The caller calls subpixellate again with the same arguments.
CallAgain ==
    /\ pc \in {"done", "raised"}
    /\ ncall < MaxCalls
    /\ prev' = Returned
    /\ ncall' = ncall + 1
    /\ pc' = "call"
    /\ UNCHANGED <<inp, numframes, all_idx, fr, sl, flxcube, varcube, normcube, bpmcube,
                   hits, call>>

NextSub == SubpixellateBegin \/ ResampleSlit \/ Normalise \/ CallAgain

Spec == InitSub /\ [][NextSub]_vars

\* ------------------------------------------------------------------------
\* Properties of subpixellate
\* ------------------------------------------------------------------------
RECURSIVE SumOver(_, _)
SumOver(S, c) ==
    IF S = {} THEN Zero
    ELSE LET v == CHOOSE x \in S : TRUE IN QAdd(c[v], SumOver(S \ {v}, c))

\* The sum of a cube over all its voxels.
CubeSum(c) == SumOver(DOMAIN c, c)

OutOfRange == <<-1, -1, -1>>
NSub == inp.spec_subpixel * inp.spat_subpixel
\* The subpixels histogrammed so far that fell into voxel v.
HitsIn(v) == {k \in 1..Len(hits) : hits[k].vox = v}
HitsInRange == {k \in 1..Len(hits) : hits[k].vox # OutOfRange}
\* The weight of one subpixel: its pixel's weight over the number of subpixels.
HitWeight(k) == Q(inp.pix[hits[k].pix].wght, NSub)
HitWeights == [k \in 1..Len(hits) |-> HitWeight(k)]

\* C1: at every point of the accumulation the normalisation cube sums to the
\* weights of the subpixels whose voxel address is in range, each being its
\* pixel's weight over spec_subpixel * spat_subpixel.
C1_WeightConservation ==
    pc \in {"loop", "normalise", "done"}
        => CubeSum(normcube) = SumOver(HitsInRange, HitWeights)

C1_Witness ==
    /\ pc = "normalise"
    /\ NSub > 1
    /\ \E k \in 1..Len(hits) : hits[k].vox = OutOfRange /\ inp.pix[hits[k].pix].wght > 0
    /\ \E k, j \in HitsInRange : inp.pix[hits[k].pix].wght > inp.pix[hits[j].pix].wght
                                 /\ inp.pix[hits[j].pix].wght > 0

\* The scenario of two frames that each put one pixel of unit flux, unit
\* inverse variance and the same positive weight into voxel v, with no
\* subpixellation.
TwoFramePeak(v) ==
    /\ inp.spec_subpixel = 1 /\ inp.spat_subpixel = 1
    /\ Cardinality(HitsIn(v)) = 2
    /\ \E k, j \in HitsIn(v) :
         /\ all_idx[hits[k].pix] # all_idx[hits[j].pix]
         /\ inp.pix[hits[k].pix].wght = inp.pix[hits[j].pix].wght
    /\ \A k \in HitsIn(v) :
         LET p == inp.pix[hits[k].pix] IN p.sci = 1 /\ p.ivar = 1 /\ p.wght > 0

MaskOfScenario(v) ==
    /\ bpmcube[v] = 0
    /\ \A u \in DOMAIN bpmcube : HitsIn(u) = {} => bpmcube[u] = 1

\* C2 as stated: the peak voxel of the two-frame scenario holds flux 2.0.
C2_PeakIsSum ==
    pc = "done" =>
        \A v \in DOMAIN flxcube : TwoFramePeak(v) => flxcube[v] = QI(2) /\ MaskOfScenario(v)

\* C2 (amended): the peak voxel of the two-frame scenario holds flux 1.0, the
\* weighted mean of the two unit fluxes; its mask is 0 and the mask of every
\* voxel that received nothing is 1.
C2_PeakIsMean ==
    pc = "done" =>
        \A v \in DOMAIN flxcube : TwoFramePeak(v) => flxcube[v] = One /\ MaskOfScenario(v)

C2_Witness ==
    /\ pc = "done"
    /\ \E v \in DOMAIN flxcube : TwoFramePeak(v)
    /\ \E u \in DOMAIN flxcube : HitsIn(u) = {}

\* The variance given to a subpixel before accumulation: its pixel's safe
\* inverse of the inverse variance times the squared subpixel weight.
HitVar(k) ==
    LET p == inp.pix[hits[k].pix]
    IN  IF p.ivar = 0 THEN Zero ELSE Q(p.wght * p.wght, p.ivar * NSub * NSub)
HitVars == [k \in 1..Len(hits) |-> HitVar(k)]

\* C3: the normalisation step never produces a non-finite value: a voxel of
\* normalisation exactly 0 gets flux 0 and variance 0, every other voxel gets
\* flux_sum / norm and var_sum / norm^2; and the accumulated variance counts a
\* pixel of inverse variance 0 with variance 0.
C3_SafeFinalisation ==
    [][pc = "normalise" /\ pc' = "done" =>
         \A v \in DOMAIN normcube :
            /\ varcube[v] = SumOver(HitsIn(v), HitVars)
            /\ IsFinite(flxcube'[v]) /\ IsFinite(varcube'[v])
            /\ IF normcube[v] = Zero
               THEN flxcube'[v] = Zero /\ varcube'[v] = Zero
               ELSE /\ QMul(flxcube'[v], normcube[v]) = flxcube[v]
                    /\ QMul(varcube'[v], QMul(normcube[v], normcube[v])) = varcube[v]]_vars

C3_Witness ==
    /\ pc = "done"
    /\ \E v \in DOMAIN normcube : normcube[v] = Zero
    /\ \E v \in DOMAIN normcube : normcube[v] # Zero /\ normcube[v] # One
                                  /\ varcube[v] # Zero
    /\ \E k \in HitsInRange : inp.pix[hits[k].pix].ivar = 0 /\ inp.pix[hits[k].pix].wght > 0

\* C4 as stated: the mask of a voxel is 1 iff its normalisation is exactly
\* zero, which is iff no subpixel contributed to it.
C4_MaskIffNoSubpixel ==
    pc = "done" =>
        \A v \in DOMAIN bpmcube :
            /\ bpmcube[v] = 1 <=> normcube[v] = Zero
            /\ bpmcube[v] = 1 <=> HitsIn(v) = {}

\* C4 (amended): the mask of a voxel is 1 iff its normalisation is exactly
\* zero; that is so for every voxel no subpixel contributed to, and a voxel
\* whose subpixels all have positive weight has mask 0.
C4_MaskIffZeroNorm ==
    pc = "done" =>
        \A v \in DOMAIN bpmcube :
            /\ bpmcube[v] \in {0, 1}
            /\ bpmcube[v] = 1 <=> normcube[v] = Zero
            /\ HitsIn(v) = {} => bpmcube[v] = 1
            /\ (HitsIn(v) # {} /\ \A k \in HitsIn(v) : inp.pix[hits[k].pix].wght > 0)
                   => bpmcube[v] = 0

C4_Witness ==
    /\ pc = "done"
    /\ \E v \in DOMAIN bpmcube : HitsIn(v) = {}
    /\ \E v \in DOMAIN bpmcube : HitsIn(v) # {} /\ bpmcube[v] = 1
    /\ \E v \in DOMAIN bpmcube : HitsIn(v) # {} /\ bpmcube[v] = 0

\* C5: a call starts from zero cubes, and a second call with the same
\* arguments returns what the first call returned.
C5_PureFunction ==
    /\ (pc = "loop" /\ hits = <<>>) =>
           /\ flxcube = ZeroCube(inp) /\ varcube = ZeroCube(inp) /\ normcube = ZeroCube(inp)
    /\ (pc \in {"done", "raised"} /\ ncall > 1) => Returned = prev

C5_Witness ==
    /\ pc = "done" /\ ncall > 1
    /\ prev.pc = "done"
    /\ \E v \in DOMAIN flxcube : flxcube[v] # Zero /\ flxcube[v] # One

\* The (frame, slit) pairs of the call, in the order of the loops.
Pairs ==
    LET per == [f \in 1..numframes |-> Len(inp.slits.items[f].spat_id)]
        flat(f) == SumInt([g \in 1..(f - 1) |-> per[g]])
        total == SumInt(per)
    IN  [k \in 1..total |->
           LET f == CHOOSE g \in 1..numframes : flat(g) < k /\ k <= flat(g) + per[g]
           IN  <<f - 1, k - flat(f) - 1>>]

\* What each pair adds to the cubes.
PairContributions ==
    [k \in 1..Len(Pairs) |->
       LET sel == this_sl(inp, all_idx, Pairs[k][1],
                          inp.slits.items[Pairs[k][1] + 1].spat_id[Pairs[k][2] + 1])
       IN  SlitContribution(inp, sel, SlitAddr(inp, sel, Pairs[k][1], Pairs[k][2]))]

PairOrders(n) == {p \in [1..n -> 1..n] : \A i, j \in 1..n : p[i] = p[j] => i = j}

\* The three accumulators after the pairs order[1..k] were added, in that
\* order, to zero cubes.
RECURSIVE Accumulate(_, _, _)
Accumulate(contrib, order, k) ==
    IF k = 0 THEN [flx |-> ZeroCube(inp), var |-> ZeroCube(inp), norm |-> ZeroCube(inp)]
    ELSE LET a == Accumulate(contrib, order, k - 1)
             c == contrib[order[k]]
         IN  [flx |-> CubeAdd(a.flx, c.flx), var |-> CubeAdd(a.var, c.var),
              norm |-> CubeAdd(a.norm, c.norm)]

\* The pairs of a set, in increasing order.
RECURSIVE SeqOfSet(_)
SeqOfSet(S) ==
    IF S = {} THEN <<>>
    ELSE LET m == CHOOSE x \in S : \A y \in S : x <= y IN <<m>> \o SeqOfSet(S \ {m})

Accumulators == [flx |-> flxcube, var |-> varcube, norm |-> normcube]

\* C6: whatever the order in which the (frame, slit) pairs are processed, and
\* however they are split into two partial cubes that are summed at the end,
\* the three accumulators, and so the normalised cube, are those of the call.
C6_OrderIndependent ==
    pc \in {"normalise", "done"} =>
        \A contrib \in {PairContributions} :
            /\ \A order \in PairOrders(Len(contrib)) :
                 LET a == Accumulate(contrib, order, Len(contrib))
                 IN  IF pc = "normalise" THEN a = Accumulators
                     ELSE /\ a.norm = normcube
                          /\ NormaliseFlux(a.flx, a.norm) = flxcube
                          /\ NormaliseVar(a.var, a.norm) = varcube
                          /\ BadPixelMask(a.norm) = bpmcube
            /\ pc = "normalise" =>
                 \A part \in SUBSET (1..Len(contrib)) :
                    LET one == SeqOfSet(part)
                        two == SeqOfSet((1..Len(contrib)) \ part)
                        a == Accumulate(contrib, one, Len(one))
                        b == Accumulate(contrib, two, Len(two))
                    IN  /\ CubeAdd(a.flx, b.flx) = flxcube
                        /\ CubeAdd(a.var, b.var) = varcube
                        /\ CubeAdd(a.norm, b.norm) = normcube

C6_Witness ==
    /\ pc = "done"
    /\ Len(Pairs) >= 3
    /\ \E v \in DOMAIN normcube :
          \E k, j \in HitsIn(v) : all_idx[hits[k].pix] # all_idx[hits[j].pix]
    /\ \E k, j \in HitsInRange : inp.pix[hits[k].pix].spatid # inp.pix[hits[j].pix].spatid

\* ------------------------------------------------------------------------
\* The whitelight helpers
\* ------------------------------------------------------------------------
\* get_whitelight_range with each user value pulled into [wavemin, wavemax].
get_whitelight_range_clamped(wavemin, wavemax, wl_range) ==
    LET lo == IF wl_range[1].given /\ wl_range[1].val >= wavemin
              THEN wl_range[1].val ELSE wavemin
        hi == IF wl_range[2].given /\ wl_range[2].val <= wavemax
              THEN wl_range[2].val ELSE wavemax
    IN  [raised |-> FALSE, wlrng |-> <<lo, hi>>, warnings |-> {}]

\* Lines 479-493.  warnings records which of the two msgs.warn calls ran.
get_whitelight_range(wavemin, wavemax, wl_range) ==
    LET lowarn == wl_range[1].given /\ wl_range[1].val < wavemin
        hiwarn == wl_range[2].given /\ wl_range[2].val > wavemax
    IN  [raised |-> FALSE,
         wlrng |-> <<IF wl_range[1].given THEN wl_range[1].val ELSE wavemin,
                     IF wl_range[2].given THEN wl_range[2].val ELSE wavemax>>,
         warnings |-> (IF lowarn THEN {"min"} ELSE {}) \cup
                      (IF hiwarn THEN {"max"} ELSE {})]

\* np.min and np.max of a non-empty array of integers.
IntMin(a) == CHOOSE x \in {a[k] : k \in DOMAIN a} : \A k \in DOMAIN a : x <= a[k]
IntMax(a) == CHOOSE x \in {a[k] : k \in DOMAIN a} : \A k \in DOMAIN a : x >= a[k]

\* Faulty variant: the pixels inside the range and the span of the range are
\* returned whether or not the range is empty.
get_whitelight_pixels_nofallback(all_wave, min_wl, max_wl) ==
    [ww |-> SelectSeq([k \in 1..Len(all_wave) |-> k - 1],
                      LAMBDA k : all_wave[k + 1] > min_wl /\ all_wave[k + 1] < max_wl),
     wavediff |-> max_wl - min_wl,
     warnings |-> {}]

\* Lines 447-454.  ww holds the 0-based indices np.where returns; warnings
\* records whether msgs.warn ran.
get_whitelight_pixels(all_wave, min_wl, max_wl) ==
    IF min_wl < max_wl
    THEN [ww |-> SelectSeq([k \in 1..Len(all_wave) |-> k - 1],
                           LAMBDA k : all_wave[k + 1] > min_wl /\ all_wave[k + 1] < max_wl),
          wavediff |-> max_wl - min_wl,
          warnings |-> {}]
    ELSE [ww |-> [k \in 1..Len(all_wave) |-> k - 1],
          wavediff |-> IntMax(all_wave) - IntMin(all_wave),
          warnings |-> {"overlap"}]

\* mnmx_wv[:, :, c] flattened: column c of every (frame, slit) row.
Column(mnmx_wv, c) ==
    LET ns == Len(mnmx_wv[1])
    IN  [k \in 1..(Len(mnmx_wv) * ns) |->
            mnmx_wv[((k - 1) \div ns) + 1][((k - 1) % ns) + 1][c]]

\* Lines 953-958 of compute_weights_frompix: the wavelength range where all
\* frames overlap and the pixels inside it.  whitelight_range = None (the
\* default of the keyword) is subscripted by get_whitelight_range, which is a
\* TypeError.
compute_weights_frompix(mnmx_wv, all_wave, whitelight_range) ==
    IF ~whitelight_range.given THEN [raised |-> TRUE, error |-> "TypeError"]
    ELSE LET wavemin == IntMax(Column(mnmx_wv, 1))
             wavemax == IntMin(Column(mnmx_wv, 2))
             wlrng == get_whitelight_range(wavemin, wavemax, whitelight_range.val).wlrng
             px == get_whitelight_pixels(all_wave, wlrng[1], wlrng[2])
         IN  [raised |-> FALSE, wavemin |-> wavemin, wavemax |-> wavemax,
              min_wl |-> wlrng[1], max_wl |-> wlrng[2],
              ww |-> px.ww, wavediff |-> px.wavediff, warnings |-> px.warnings]

\* cube[:, :, wmin:wmax] with 0-based wmin, wmax; a cube is the sequence of its
\* spaxels, each the sequence of its values along the wavelength axis.
SliceCube(cube, wmin, wmax) ==
    [p \in DOMAIN cube |-> SubSeq(cube[p], wmin + 1, wmax)]

\* np.sum(cutcube != 0.0, axis=2) with the zeros replaced by one (lines
\* 536-537).
NonzeroCount(spaxel) ==
    LET n == Cardinality({k \in DOMAIN spaxel : spaxel[k] # 0})
    IN  IF n = 0 THEN 1 ELSE n

\* The collapse dividing by the number of slices instead.
CollapseMean(cutcube) ==
    [p \in DOMAIN cutcube |->
        Q(SumInt(cutcube[p]), IF Len(cutcube[p]) = 0 THEN 1 ELSE Len(cutcube[p]))]

\* Lines 536-538.
CollapseCube(cutcube) ==
    [p \in DOMAIN cutcube |-> Q(SumInt(cutcube[p]), NonzeroCount(cutcube[p]))]

\* Lines 518-539.  nwave is cube.shape[2].
make_whitelight_fromcube(cube, nwave, wave, wavemin, wavemax) ==
    IF ~wavemin.given /\ ~wavemax.given
    THEN [raised |-> FALSE, wl_img |-> CollapseCube(cube)]
    ELSE IF ~wave.given THEN [raised |-> TRUE, error |-> "wave must be supplied"]
    ELSE IF Len(wave.val) # nwave THEN [raised |-> TRUE, error |-> "wave length"]
    ELSE LET lo == IF wavemin.given THEN wavemin.val ELSE IntMin(wave.val)
             hi == IF wavemax.given THEN wavemax.val ELSE IntMax(wave.val)
             \* np.where: the matching 1-based indices in increasing order
             ww == SeqOfSet({k \in 1..nwave : wave.val[k] >= lo /\ wave.val[k] <= hi})
         IN  IF ww = <<>> THEN [raised |-> TRUE, error |-> "IndexError"]
             ELSE LET wmin == ww[1] - 1
                      wmax == ww[Len(ww)]
                  IN  [raised |-> FALSE,
                       wl_img |-> CollapseCube(SliceCube(cube, wmin, wmax))]

\* ------------------------------------------------------------------------
\* The grid builder create_wcs
\* ------------------------------------------------------------------------
\* np.min, np.max and np.mean of a non-empty array.
npmin(a) == CHOOSE x \in {a[k] : k \in DOMAIN a} : \A k \in DOMAIN a : QLe(x, a[k])
npmax(a) == CHOOSE x \in {a[k] : k \in DOMAIN a} : \A k \in DOMAIN a : QLe(a[k], x)
npmean(a) == QDiv(SumQ(a), QI(Len(a)))

\* np.cos(x * np.pi / 180) at the mean declinations of the model's inputs,
\* where the cosine is rational.
CosDeg(x) ==
    IF x = Zero THEN One
    ELSE IF x = QI(60) \/ x = QI(-60) THEN Half
    ELSE NaN

\* Rounding towards minus infinity.
IntFloor(x) == x.n \div x.d

\* int() of a finite float: truncation towards zero.
pyint(x) == IF x.n >= 0 THEN x.n \div x.d ELSE -((-x.n) \div x.d)

\* np.round of a finite float: to the nearest integer, ties to the even one.
npround(x) ==
    LET f == x.n \div x.d
        twice == QMul(QI(2), QSub(x, QI(f)))
    IN  IF QLt(twice, One) THEN f
        ELSE IF QLt(One, twice) THEN f + 1
        ELSE IF f % 2 = 0 THEN f ELSE f + 1

\* Faulty variant: an override is taken only when it is truthy, so 0 is lost.
wcs_bounds_truthy(all_ra, all_dec, all_wave, ra_min, ra_max, dec_min, dec_max, wave_min, wave_max) ==
    [ra_min |-> IF ra_min.given /\ ra_min.val # Zero THEN ra_min.val ELSE npmin(all_ra),
     ra_max |-> IF ra_max.given /\ ra_max.val # Zero THEN ra_max.val ELSE npmax(all_ra),
     dec_min |-> IF dec_min.given /\ dec_min.val # Zero THEN dec_min.val ELSE npmin(all_dec),
     dec_max |-> IF dec_max.given /\ dec_max.val # Zero THEN dec_max.val ELSE npmax(all_dec),
     wav_min |-> IF wave_min.given /\ wave_min.val # Zero THEN wave_min.val ELSE npmin(all_wave),
     wav_max |-> IF wave_max.given /\ wave_max.val # Zero THEN wave_max.val ELSE npmax(all_wave)]

\* Lines 710-717.
wcs_bounds(all_ra, all_dec, all_wave, ra_min, ra_max, dec_min, dec_max, wave_min, wave_max) ==
    [ra_min |-> IF ra_min.given THEN ra_min.val ELSE npmin(all_ra),
     ra_max |-> IF ra_max.given THEN ra_max.val ELSE npmax(all_ra),
     dec_min |-> IF dec_min.given THEN dec_min.val ELSE npmin(all_dec),
     dec_max |-> IF dec_max.given THEN dec_max.val ELSE npmax(all_dec),
     wav_min |-> IF wave_min.given THEN wave_min.val ELSE npmin(all_wave),
     wav_max |-> IF wave_max.given THEN wave_max.val ELSE npmax(all_wave)]

\* Lines 827-860: crpix is [0, 0, 0].
generate_WCS(crval, cdelt) ==
    [crval |-> crval, cdelt |-> cdelt, crpix |-> <<0, 0, 0>>,
     ctype |-> <<"RA---TAN", "DEC--TAN", "WAVE">>]

\* np.arange(1 + n) - 0.5 (lines 820-822).
VoxelEdges(n) ==
    LET a == arange(Zero, QI(1 + n), One)
    IN  [k \in DOMAIN a |-> QSub(a[k], Half)]

\* The spectral axis of a collapsed grid that keeps the bounds of wcs_bounds.
CollapseKeepBounds(all_wave, b, dwave, numwav, collapse) ==
    IF collapse
    THEN [wav_min |-> b.wav_min, wav_max |-> b.wav_max,
          dwave |-> QSub(b.wav_max, b.wav_min), numwav |-> 1]
    ELSE [wav_min |-> b.wav_min, wav_max |-> b.wav_max,
          dwave |-> dwave, numwav |-> numwav]

\* Lines 789-793: the spectral axis, collapsed to one channel when asked.
CollapseAxis(all_wave, b, dwave, numwav, collapse) ==
    IF collapse
    THEN [wav_min |-> npmin(all_wave), wav_max |-> npmax(all_wave),
          dwave |-> QSub(npmax(all_wave), npmin(all_wave)), numwav |-> 1]
    ELSE [wav_min |-> b.wav_min, wav_max |-> b.wav_max,
          dwave |-> dwave, numwav |-> numwav]

\* Faulty variant: the celestial axes stay those of the data.
CelestialFromData(reference, b, dspat, numra, numdec) ==
    [crval |-> <<b.ra_min, b.dec_min>>, cdelt |-> <<dspat, dspat>>,
     numra |-> numra, numdec |-> numdec]

\* Lines 796-807: the celestial part of coord_min and coord_dlt and the spatial
\* cell counts, replaced by those of the reference image when there is one.
CelestialAxes(reference, b, dspat, numra, numdec) ==
    IF reference.given
    THEN [crval |-> reference.val.crval, cdelt |-> reference.val.cdelt,
          numra |-> reference.val.shape[1], numdec |-> reference.val.shape[2]]
    ELSE [crval |-> <<b.ra_min, b.dec_min>>, cdelt |-> <<dspat, dspat>>,
          numra |-> numra, numdec |-> numdec]

\* Lines 775-824.  a holds the arguments; reference, when given, stands for
\* what load_imageWCS returns: the image (its shape) and its WCS.
create_wcs(a) ==
    LET cosdec == CosDeg(npmean(a.all_dec))
        b == wcs_bounds(a.all_ra, a.all_dec, a.all_wave, a.ra_min, a.ra_max,
                        a.dec_min, a.dec_max, a.wave_min, a.wave_max)
        numra0 == pyint(QDiv(QMul(QSub(b.ra_max, b.ra_min), cosdec), a.dspat))
        numdec0 == pyint(QDiv(QSub(b.dec_max, b.dec_min), a.dspat))
        numwav0 == npround(QDiv(QSub(b.wav_max, b.wav_min), a.dwave))
        w == CollapseAxis(a.all_wave, b, a.dwave, numwav0, a.collapse)
        isref == a.reference.given
        cel == CelestialAxes(a.reference, b, a.dspat, numra0, numdec0)
        coord_min == <<cel.crval[1], cel.crval[2], w.wav_min>>
        coord_dlt == <<cel.cdelt[1], cel.cdelt[2], w.dwave>>
    IN  [raised |-> FALSE,
         cubewcs |-> generate_WCS(coord_min, coord_dlt),
         voxedges |-> <<VoxelEdges(cel.numra), VoxelEdges(cel.numdec), VoxelEdges(w.numwav)>>,
         reference_image |-> IF isref THEN Some(a.reference.val.shape) ELSE None,
         numra |-> cel.numra, numdec |-> cel.numdec, numwav |-> w.numwav,
         bounds |-> b, cosdec |-> cosdec]

\* The arguments create_wcs gets from compute_weights_frompix (lines 961-965)
\* when the caller leaves the bounds and the reference image to their defaults.
WhitelightWcsArgs(all_ra, all_dec, all_wave, dspat, wavediff, collapse) ==
    [all_ra |-> all_ra, all_dec |-> all_dec, all_wave |-> all_wave,
     dspat |-> dspat, dwave |-> QI(wavediff),
     ra_min |-> None, ra_max |-> None, dec_min |-> None, dec_max |-> None,
     wave_min |-> None, wave_max |-> None, reference |-> None, collapse |-> collapse]

\* Faulty variant: the grid of the whitelight image is not collapsed.
whitelight_wcs_uncollapsed(all_ra, all_dec, all_wave, dspat, wavediff) ==
    IF wavediff = 0 THEN [raised |-> TRUE, error |-> "ValueError"]
    ELSE create_wcs(WhitelightWcsArgs(all_ra, all_dec, all_wave, dspat, wavediff, FALSE))

\* Lines 961-965 of compute_weights_frompix: image_wcs and voxedge, from
\* create_wcs with dwave = wavediff and collapse = True.  wavediff = 0 is the
\* span of all_wave, so line 785 takes int(np.round(0.0 / 0.0)), a ValueError.
whitelight_wcs(all_ra, all_dec, all_wave, dspat, wavediff) ==
    IF wavediff = 0 THEN [raised |-> TRUE, error |-> "ValueError"]
    ELSE create_wcs(WhitelightWcsArgs(all_ra, all_dec, all_wave, dspat, wavediff, TRUE))

\* Lines 953-971 of compute_weights_frompix: what generate_image_subpixel is
\* handed besides the arguments of the call.  rng is the outcome of the range
\* step.
whitelight_image_args(a, rng) ==
    IF rng.raised THEN rng
    ELSE LET w == whitelight_wcs(a.all_ra, a.all_dec,
                                 [k \in 1..Len(a.all_wave) |-> QI(a.all_wave[k])],
                                 a.dspat, rng.wavediff)
         IN  IF w.raised THEN w
             ELSE [raised |-> FALSE, image_wcs |-> w.cubewcs, voxedge |-> w.voxedges,
                   spec_subpixel |-> 1, spat_subpixel |-> 1, combine |-> TRUE]

\* ------------------------------------------------------------------------
\* Output file names.  A string is the sequence of its characters.
\* ------------------------------------------------------------------------
DotFits == <<".", "f", "i", "t", "s">>
DotGz == <<".", "g", "z">>
Spec2dPrefix == <<"s", "p", "e", "c", "2", "d", "_">>
Spec3dPrefix == <<"s", "p", "e", "c", "3", "d", "_">>
WhitelightFits == <<"_", "w", "h", "i", "t", "e", "l", "i", "g", "h", "t">> \o DotFits
DatacubeFits == <<"d", "a", "t", "a", "c", "u", "b", "e">> \o DotFits

\* str.rfind(ch) as a 1-based index, 0 when ch does not occur.
rfind(str, ch) ==
    IF \E k \in 1..Len(str) : str[k] = ch
    THEN CHOOSE k \in 1..Len(str) : str[k] = ch /\ \A j \in (k + 1)..Len(str) : str[j] # ch
    ELSE 0

\* os.path.splitext: the split is at the last dot of the last path component,
\* unless only dots precede it there.
splitext(path) ==
    LET sep == rfind(path, "/")
        dot == rfind(path, ".")
    IN  IF dot > sep /\ \E k \in (sep + 1)..(dot - 1) : path[k] # "."
        THEN <<SubSeq(path, 1, dot - 1), SubSeq(path, dot, Len(path))>>
        ELSE <<path, <<>>>>

\* sub in str.
contains(str, sub) ==
    \E i \in 1..(Len(str) - Len(sub) + 1) : SubSeq(str, i, i + Len(sub) - 1) = sub

\* str.replace(old, new): every non-overlapping occurrence, from the left.
RECURSIVE replace(_, _, _)
replace(str, old, new) ==
    IF Len(str) < Len(old) THEN str
    ELSE IF SubSeq(str, 1, Len(old)) = old
         THEN new \o replace(SubSeq(str, Len(old) + 1, Len(str)), old, new)
         ELSE <<Head(str)>> \o replace(Tail(str), old, new)

\* The decimal digits of a natural number.
RECURSIVE Decimal(_)
Decimal(n) ==
    LET d == <<"0", "1", "2", "3", "4", "5", "6", "7", "8", "9">>[(n % 10) + 1]
    IN  IF n < 10 THEN <<d>> ELSE Decimal(n \div 10) \o <<d>>

\* f'{idx:03}' for idx >= 0: at least three digits, padded with zeros.
Format03(idx) ==
    [k \in 1..(3 - Len(Decimal(idx))) |-> "0"] \o Decimal(idx)

\* Faulty variant: '.fits' is appended whenever the name does not end in it.
get_output_filename_endswith(fil, par_outfile, combine, idx) ==
    LET par == IF par_outfile = <<>> THEN DatacubeFits ELSE par_outfile
    IN  IF combine
        THEN IF Len(par) >= 5 /\ SubSeq(par, Len(par) - 4, Len(par)) = DotFits
             THEN par ELSE par \o DotFits
        ELSE IF par_outfile = <<>> THEN replace(fil, Spec2dPrefix, Spec3dPrefix)
        ELSE splitext(par_outfile)[1] \o <<"_">> \o Format03(idx) \o DotFits

\* Lines 404-412.
get_output_filename(fil, par_outfile, combine, idx) ==
    LET par == IF par_outfile = <<>> THEN DatacubeFits ELSE par_outfile
    IN  IF combine
        THEN IF contains(par, DotFits) THEN par ELSE par \o DotFits
        ELSE IF par_outfile = <<>> THEN replace(fil, Spec2dPrefix, Spec3dPrefix)
        ELSE splitext(par_outfile)[1] \o <<"_">> \o Format03(idx) \o DotFits

\* Faulty variant: the suffix is inserted and the extension kept.
get_output_whitelight_filename_keepext(outfile) ==
    splitext(outfile)[1] \o SubSeq(WhitelightFits, 1, 11) \o splitext(outfile)[2]

\* Line 427.
get_output_whitelight_filename(outfile) == splitext(outfile)[1] \o WhitelightFits

\* The pieces file names are made of, and the names of up to MaxParts pieces.
NamePieces == {<<"c">>, <<".">>, <<"/">>, DotFits, DotGz, Spec2dPrefix}

RECURSIVE NamesOf(_)
NamesOf(n) ==
    IF n = 0 THEN {<<>>}
    ELSE NamesOf(n - 1) \cup {a \o b : a \in NamesOf(n - 1), b \in NamePieces}

FileNames == NamesOf(MaxParts)

\* The spec2d file names: the prefix once, twice, and not at all.
Spec2dNames ==
    {Spec2dPrefix \o <<"c">> \o DotFits,
     <<"c", "/">> \o Spec2dPrefix \o Spec2dPrefix \o <<"c">> \o DotFits,
     <<"c">> \o DotFits}

OutputFilenameInputs ==
    [fil : Spec2dNames, par_outfile : FileNames, combine : BOOLEAN, idx : {1, 12, 123, 1000}]

\* The primary output file names: what get_output_filename returns.
PrimaryNames ==
    {get_output_filename(a.fil, a.par_outfile, a.combine, a.idx) : a \in OutputFilenameInputs}

\* ------------------------------------------------------------------------
\* The boxcar extraction of extract_standard_spec
\* ------------------------------------------------------------------------
\* An image is the sequence of its spaxels and a cube the sequence of the
\* spectra of its spaxels.
\* Lines 264-265: norm_flux = wl_img * mask, divided by its sum.
norm_flux(wl_img, mask) ==
    LET f == [p \in 1..Len(wl_img) |-> QMul(QI(wl_img[p]), mask[p])]
        total == SumQ(f)
    IN  [p \in 1..Len(f) |-> QDiv(f[p], total)]

\* Line 267: cntmask = np.logical_not(bpmcube) * mask (bpm is bpmcube).
cntmask(bpm, mask) ==
    [p \in 1..Len(bpm) |->
        [w \in 1..Len(bpm[p]) |-> IF bpm[p][w] = 0 THEN mask[p] ELSE Zero]]

\* (a * cntmask).sum(0).sum(0) for a cube a: one sum per wavelength bin.
SumSpaxels(a, cnt) ==
    [w \in 1..Len(cnt[1]) |->
        SumQ([p \in 1..Len(cnt) |-> QMul(a[p][w], cnt[p][w])])]

\* Line 268: flxscl = (norm_flux * cntmask).sum(0).sum(0).
flxscl(nf, cnt) ==
    SumSpaxels([p \in 1..Len(nf) |-> [w \in 1..Len(cnt[1]) |-> nf[p]]], cnt)

\* Faulty variant: a bin of exactly one third is good.
box_gpm_atleast(scl) == [w \in 1..Len(scl) |-> QLe(Q(1, 3), scl[w])]

\* Line 274: box_gpm = flxscl > 1/3.
box_gpm(scl) == [w \in 1..Len(scl) |-> QLt(Q(1, 3), scl[w])]

\* Lines 262-277: the boxcar spectrum, its variance and its good-pixel mask
\* (flx and var are flxcube and varcube).
BoxcarSpectrum(flx, var, cnt, scl) ==
    LET nrmcnt == [w \in 1..Len(scl) |-> inverse(scl[w])]
        cnt2 == [p \in 1..Len(cnt) |-> [w \in 1..Len(scl) |-> QMul(cnt[p][w], cnt[p][w])]]
        sci == SumSpaxels(flx, cnt)
        vsum == SumSpaxels(var, cnt2)
    IN  [flxscl |-> scl,
         box_flux |-> [w \in 1..Len(scl) |-> QMul(sci[w], nrmcnt[w])],
         box_var |-> [w \in 1..Len(scl) |-> QMul(vsum[w], QMul(nrmcnt[w], nrmcnt[w]))],
         box_gpm |-> box_gpm(scl)]

extract_boxcar(wl_img, mask, bpm, flx, var) ==
    BoxcarSpectrum(flx, var, cntmask(bpm, mask),
                   flxscl(norm_flux(wl_img, mask), cntmask(bpm, mask)))

\* ------------------------------------------------------------------------
\* compute_weights
\* ------------------------------------------------------------------------
\* Line 1026: np.unravel_index(np.argmax(whitelight_img), shape) for an image
\* given as the sequence of its rows: the first maximum in row-major order,
\* 0-based.
idx_max(img) ==
    LET ny == Len(img[1])
        flat == [k \in 1..(Len(img) * ny) |-> img[((k - 1) \div ny) + 1][((k - 1) % ny) + 1]]
        k == CHOOSE i \in 1..Len(flat) :
                /\ \A j \in 1..Len(flat) : flat[j] <= flat[i]
                /\ \A j \in 1..(i - 1) : flat[j] < flat[i]
    IN  <<(k - 1) \div ny, (k - 1) % ny>>

\* Lines 1035-1038: the edges of the 3 x 3 spaxel box and of the numwav
\* spectral bins.
BoxBins(imax, numwav) ==
    <<<<QSub(QI(imax[1] - 1), Half), QSub(QI(imax[1] + 2), Half)>>,
      <<QSub(QI(imax[2] - 1), Half), QSub(QI(imax[2] + 2), Half)>>,
      VoxelEdges(numwav)>>

\* np.histogramdd with explicit edges: the 1-based bin of x, the last edge
\* included in the last bin, and 0 outside the edges.
EdgeBin(x, edges) ==
    IF Len(edges) < 2 \/ ~QLe(edges[1], x) \/ ~QLe(x, edges[Len(edges)]) THEN 0
    ELSE IF x = edges[Len(edges)] THEN Len(edges) - 1
    ELSE CHOOSE k \in 1..(Len(edges) - 1) : QLe(edges[k], x) /\ QLt(x, edges[k + 1])

\* The spectral bin of the box that holds a pixel, 0 when the pixel is
\* outside the box (lines 1047-1048).
BoxBin(w, bins, rec) ==
    LET c == wcs_world2pix(w, <<QI(rec.ra), QI(rec.dec), QI(rec.wave)>>)
    IN  IF EdgeBin(c[1], bins[1]) = 0 \/ EdgeBin(c[2], bins[2]) = 0 THEN 0
        ELSE EdgeBin(c[3], bins[3])

\* The pixels of frame ff that fall into spectral bin k of the box.
BinPixels(pix, w, bins, ff, k) ==
    SelectSeq(pix, LAMBDA r : r.idx = ff /\ BoxBin(w, bins, r) = k)

\* Faulty variant: the plain inverse of var_spec, which is 0/0 in an empty bin.
ivar_spec_plain(sel) ==
    IF \E i \in 1..Len(sel) : sel[i].ivar = 0 THEN Zero
    ELSE QDiv(One, SumQ([i \in 1..Len(sel) |-> Q(1, sel[i].ivar)]))

\* Lines 1049, 1052-1053: var_spec sums 1/ivar, which is +inf as soon as one
\* pixel of the bin has ivar = 0; ivar_spec = (var_spec > 0) / (var_spec +
\* (var_spec == 0)).
ivar_spec(sel) ==
    IF \E i \in 1..Len(sel) : sel[i].ivar = 0 THEN Zero
    ELSE LET var == SumQ([i \in 1..Len(sel) |-> Q(1, sel[i].ivar)])
         IN  IF QLt(Zero, var) THEN QDiv(One, var) ELSE Zero

\* Lines 1048, 1050-1051, 1055: spec * np.sqrt(normspec) with normspec =
\* (norm > 0) / (norm + (norm == 0)); the square root is kept as a surd when
\* norm is not a square.
flux_spec(sel) ==
    LET spec == SumInt([i \in 1..Len(sel) |-> sel[i].sci])
        norm == Len(sel)
    IN  IF norm = 0 \/ spec = 0 THEN Zero
        ELSE IF \E r \in 1..norm : r * r = norm
        THEN Q(spec, CHOOSE r \in 1..norm : r * r = norm)
        ELSE [spec |-> spec, over_sqrt |-> norm]

\* scipy interp1d(x, y, kind='cubic', fill_value='extrapolate')(v) for four
\* points: the not-a-knot spline through four points is the cubic polynomial
\* through them (ys are integers).
RECURSIVE ProdQ(_)
ProdQ(q) == IF q = <<>> THEN One ELSE QMul(Head(q), ProdQ(Tail(q)))
interp_cubic(xs, ys, v) ==
    SumQ([j \in 1..4 |->
            QMul(QI(ys[j]), ProdQ([m \in 1..3 |->
                                  LET o == IF m < j THEN m ELSE m + 1
                                  IN  QDiv(QSub(v, xs[o]), QSub(xs[j], xs[o]))]))])

\* Faulty variant: every pixel gets the weight spectrum of the first frame.
PixelWeightFirst(rec, numfiles, wave_spec, weights) ==
    IF rec.idx \in 0..(numfiles - 1)
    THEN interp_cubic(wave_spec, weights[1], QI(rec.wave))
    ELSE One

\* Lines 1073-1077: the weight of one pixel.
PixelWeight(rec, numfiles, wave_spec, weights) ==
    IF rec.idx \in 0..(numfiles - 1)
    THEN interp_cubic(wave_spec, weights[rec.idx + 1], QI(rec.wave))
    ELSE One

\* Lines 1040-1060 and 1071-1078, given the grid of lines 1023-1038 and the
\* weight spectra that coadd.sn_weights returned.
WeightsFromStacks(pix, numfiles, numwav, w, bins, weights) ==
    LET wave_spec == [k \in 1..numwav |-> QAdd(w.crval[3], QMul(w.cdelt[3], QI(k)))]
        flux == [k \in 1..numwav |->
                   [ff \in 1..numfiles |-> flux_spec(BinPixels(pix, w, bins, ff - 1, k))]]
        ivar == [k \in 1..numwav |->
                   [ff \in 1..numfiles |-> ivar_spec(BinPixels(pix, w, bins, ff - 1, k))]]
    IN  IF numwav < 4 THEN [raised |-> TRUE, error |-> "ValueError"]
        ELSE [raised |-> FALSE, numfiles |-> numfiles, wave_spec |-> wave_spec,
              flux_stack |-> flux, ivar_stack |-> ivar,
              mask_stack |-> [k \in 1..numwav |->
                                [ff \in 1..numfiles |->
                                    flux[k][ff] # Zero /\ ivar[k][ff] # Zero]],
              all_wghts |-> [p \in 1..Len(pix) |->
                               PixelWeight(pix[p], numfiles, wave_spec, weights)]]

\* Lines 1021-1078.  weights is what coadd.sn_weights returns for the stacks.
compute_weights(pix, whitelight_img, dspat, dwv, weights) ==
    LET wave == [p \in 1..Len(pix) |-> pix[p].wave]
        numwav == pyint(Q(IntMax(wave) - IntMin(wave), dwv))
    IN  WeightsFromStacks(pix,
            Cardinality({pix[p].idx : p \in 1..Len(pix)}),
            numwav,
            generate_WCS(<<QI(IntMin([p \in 1..Len(pix) |-> pix[p].ra])),
                           QI(IntMin([p \in 1..Len(pix) |-> pix[p].dec])),
                           QI(IntMin(wave))>>,
                         <<QI(dspat), QI(dspat), QI(dwv)>>),
            BoxBins(idx_max(whitelight_img), numwav),
            weights)

\* ------------------------------------------------------------------------
\* correct_grating_shift
\* ------------------------------------------------------------------------
IntLarger(x, y) == IF x >= y THEN x ELSE y
IntSmaller(x, y) == IF x <= y THEN x ELSE y

\* Line 178: minw, maxw = max(np.min(wave_curr), np.min(wave_ref)),
\*                        max(np.min(wave_curr), np.max(wave_ref)).
grating_minw(wave_curr, wave_ref) == IntLarger(IntMin(wave_curr), IntMin(wave_ref))
grating_maxw(wave_curr, wave_ref) == IntLarger(IntMin(wave_curr), IntMax(wave_ref))

\* Line 180: wave_corr = (wave_eval - minw) / (maxw - minw); maxw = minw
\* gives a non-finite value for every wavelength.
grating_wave_corr(wave_eval, minw, maxw) ==
    [k \in 1..Len(wave_eval) |->
        IF maxw = minw THEN NaN ELSE Q(wave_eval[k] - minw, maxw - minw)]

\* Line 181: np.where((wave_corr > 0.1) & (wave_corr < 0.9)), 0-based; no
\* comparison holds of the non-finite values of maxw = minw.
grating_wblz(wave_corr) ==
    SelectSeq([k \in 1..Len(wave_corr) |-> k - 1],
              LAMBDA k : /\ IsFinite(wave_corr[k + 1])
                         /\ QLt(Q(1, 10), wave_corr[k + 1])
                         /\ QLt(wave_corr[k + 1], Q(9, 10)))

\* Lines 176-184 up to the fit: the scaling range, the scaled wavelengths and
\* the pixels that enter np.polyfit, which raises TypeError when there is none.
correct_grating_shift(wave_eval, wave_curr, wave_ref) ==
    LET minw == grating_minw(wave_curr, wave_ref)
        maxw == grating_maxw(wave_curr, wave_ref)
        wave_corr == grating_wave_corr(wave_eval, minw, maxw)
        wblz == grating_wblz(wave_corr)
    IN  [raised |-> wblz = <<>>, minw |-> minw, maxw |-> maxw,
         wave_corr |-> wave_corr, wblz |-> wblz]

\* ------------------------------------------------------------------------
\* PypeItImage: the bit mask of an image
\* ------------------------------------------------------------------------
\* The flags of maskimage.ImageBitMask in the order of their bits.
MaskFlags == <<"BPM", "CR", "SATURATION", "MINCOUNTS", "OFFSLITS", "IS_NAN", "IVAR0",
               "IVAR_NAN", "EXTRACT">>
BitOf(flag) == (CHOOSE b \in 1..Len(MaskFlags) : MaskFlags[b] = flag) - 1
\* The bit of the flag is set in the mask value v.
flagged(v, flag) == (v \div (2 ^ BitOf(flag))) % 2 = 1
\* BitMask.turn_on and BitMask.turn_off on one value.
turn_on(v, flag) == IF flagged(v, flag) THEN v ELSE v + 2 ^ BitOf(flag)
turn_off(v, flag) == IF flagged(v, flag) THEN v - 2 ^ BitOf(flag) ELSE v

\* mask[indx] = self.bitmask.turn_on(mask[indx], flag) for a boolean indx.
TurnOnWhere(mask, indx, flag) ==
    [p \in DOMAIN mask |-> IF indx[p] THEN turn_on(mask[p], flag) ELSE mask[p]]

\* Lines 234-275 of build_mask.  img holds the attributes image, bpm, crmask,
\* ivar and detector of the object; the value is the new self.fullmask.
build_mask(img, saturation, mincounts, slitmask) ==
    LET P == DOMAIN img.image
        sat == IF saturation.given THEN saturation.val ELSE img.detector.saturation
        minc == IF mincounts.given THEN mincounts.val ELSE img.detector.mincounts
        m0 == [p \in P |-> 0]
        m1 == IF img.bpm.given
              THEN TurnOnWhere(m0, [p \in P |-> img.bpm.val[p] # 0], "BPM") ELSE m0
        m2 == IF img.crmask.given THEN TurnOnWhere(m1, img.crmask.val, "CR") ELSE m1
        m3 == TurnOnWhere(m2, [p \in P |-> IsFinite(img.image[p]) /\ QLe(sat, img.image[p])],
                          "SATURATION")
        m4 == TurnOnWhere(m3, [p \in P |-> IsFinite(img.image[p]) /\ QLe(img.image[p], minc)],
                          "MINCOUNTS")
        m5 == TurnOnWhere(m4, [p \in P |-> ~IsFinite(img.image[p])], "IS_NAN")
        m6 == IF img.ivar.given
              THEN TurnOnWhere(m5, [p \in P |-> ~(IsFinite(img.ivar.val[p])
                                                  /\ QLt(Zero, img.ivar.val[p]))], "IVAR0")
              ELSE m5
        m7 == IF img.ivar.given
              THEN TurnOnWhere(m6, [p \in P |-> ~IsFinite(img.ivar.val[p])], "IVAR_NAN")
              ELSE m6
    IN  IF slitmask.given
        THEN TurnOnWhere(m7, [p \in P |-> slitmask.val[p] = -1], "OFFSLITS")
        ELSE m7

\* Faulty variant: the new cosmic rays are added to the old ones.
update_mask_cr_add(fullmask, crmask_new) == TurnOnWhere(fullmask, crmask_new, "CR")

\* Lines 302-304 of update_mask_cr: the new self.fullmask.
update_mask_cr(fullmask, crmask_new) ==
    TurnOnWhere([p \in DOMAIN fullmask |-> turn_off(fullmask[p], "CR")], crmask_new, "CR")

\* ------------------------------------------------------------------------
\* Calls of the helpers
\* ------------------------------------------------------------------------
Opt(S) == {None} \cup {Some(x) : x \in S}

\* Automatic ranges and user ranges handed to get_whitelight_range.
WhitelightRangeInputs ==
    [wavemin : {2, 3}, wavemax : {5, 6}, wl_range : Opt(0..7) \X Opt(0..7)]

\* Cubes of two spaxels: a spectrum of any values and a constant one.
CubeValues == {0, 1, 2}
Cubes(nwave) ==
    {<<s, [k \in 1..nwave |-> c]>> : s \in [1..nwave -> CubeValues], c \in CubeValues}

\* The wavelength array of a cube of nwave slices: missing, of the right
\* length (increasing or decreasing), or one element too long.
WaveArrays(nwave) ==
    {None, Some([k \in 1..nwave |-> k]), Some([k \in 1..nwave |-> nwave + 1 - k]),
     Some([k \in 1..(nwave + 1) |-> k])}

WhitelightCubeInputs ==
    UNION {[cube : Cubes(nwave), nwave : {nwave}, wave : WaveArrays(nwave),
            wavemin : Opt(0..(nwave + 1)), wavemax : Opt(0..(nwave + 1))]
           : nwave \in 1..MaxWave}

\* The reference file: an image stored as NAXIS2 = 4 rows of NAXIS1 = 3
\* pixels, with the celestial WCS of its header.
ReferenceFile ==
    [data_shape |-> <<4, 3>>, crval |-> <<QI(5), QI(6)>>, cdelt |-> <<Q(1, 4), Q(1, 4)>>]

\* Lines 557-561: the image is transposed, so its shape is (NAXIS1, NAXIS2).
load_imageWCS(file) ==
    [shape |-> <<file.data_shape[2], file.data_shape[1]>>,
     crval |-> file.crval, cdelt |-> file.cdelt]

\* What load_imageWCS returns for the reference file.
ReferenceImage == load_imageWCS(ReferenceFile)

\* Pixel coordinates and requests handed to create_wcs.  The overrides
\* include bounds outside the data (ra_min = 3, wave_min = 14 lie above every
\* pixel).
GridInputs ==
    [all_ra : {<<Zero, One>>, <<Zero, Q(5, 2)>>},
     all_dec : {<<QI(-1), One>>, <<QI(59), QI(61)>>},
     all_wave : {<<QI(10), QI(13)>>, <<QI(10), Q(25, 2)>>},
     dspat : {One, Half},
     dwave : {One, QI(2)},
     ra_min : {None, Some(Half), Some(QI(3))},
     ra_max : Opt({QI(2)}),
     dec_min : Opt({QI(-2)}),
     dec_max : {None},
     wave_min : {None, Some(QI(9)), Some(QI(14))},
     wave_max : Opt({QI(14)}),
     reference : Opt({ReferenceImage}),
     collapse : BOOLEAN]

\* One degree of right ascension on the equator in steps of 0.0001 degree.
FineGridInput ==
    [all_ra |-> <<Zero, One>>, all_dec |-> <<Zero, Zero>>,
     all_wave |-> <<QI(10), QI(13)>>, dspat |-> Q(1, 10000), dwave |-> One,
     ra_min |-> None, ra_max |-> None, dec_min |-> None, dec_max |-> None,
     wave_min |-> None, wave_max |-> None, reference |-> None, collapse |-> FALSE]

CreateWcsInputs == GridInputs \cup {FineGridInput}

\* Coordinate arrays and overrides handed to wcs_bounds: every bound is left
\* to the data, overridden by 0 or overridden by another value.
BoundsInputs ==
    [all_ra : {<<One, QI(2), Q(3, 2)>>},
     all_dec : {<<QI(-1), QI(-3)>>, <<QI(2), QI(5)>>},
     all_wave : {<<QI(10), QI(13)>>},
     ra_min : Opt({Zero, Half}), ra_max : Opt({Zero, QI(4)}),
     dec_min : Opt({Zero, QI(-4)}), dec_max : Opt({Zero, QI(6)}),
     wave_min : Opt({Zero, QI(9)}), wave_max : Opt({Zero, QI(14)})]

\* No call of subpixellate is in progress while the helpers are exercised.
\* The minimum and maximum wavelength of every slit of every frame
\* (mnmx_wv), for one or two frames of one or two slits.
WaveLimits == {<<1, 3>>, <<1, 5>>, <<3, 5>>, <<4, 5>>}
MinMaxWaves ==
    UNION {[1..nf -> [1..ns -> WaveLimits]] : nf \in 1..2, ns \in 1..2}

\* The range step of compute_weights_frompix: the pixel wavelengths and the
\* whitelight_range keyword (its default None, no user value, user values).
\* Of all_ra and all_dec only the extremes and the mean are read.
WeightsRangeInputs ==
    [mnmx_wv : MinMaxWaves,
     all_wave : {<<1, 2, 3, 4, 5>>, <<4, 2, 2, 6>>},
     all_ra : {<<Zero, One, QI(2), One>>},
     all_dec : {<<QI(-1), One, Zero, Zero>>},
     dspat : {One},
     whitelight_range : {None, Some(<<None, None>>), Some(<<Some(2), None>>),
                         Some(<<Some(4), Some(2)>>)}]

\* Standard-star cubes of three spaxels and two wavelength bins: the
\* whitelight image, the aperture mask (a spaxel is outside, half inside or
\* inside), the bad-pixel mask of each spaxel and cubes of unit flux and
\* variance.
BoxcarInputs ==
    [wl_img : [1..3 -> {0, 1, 2}],
     mask : [1..3 -> {Zero, Half, One}],
     bpmcube : [1..3 -> {<<0, 0>>, <<1, 0>>, <<0, 1>>}],
     flxcube : {[p \in 1..3 |-> <<One, One>>]},
     varcube : {[p \in 1..3 |-> <<One, One>>]}]

\* Pixel tables of compute_weights: two pixels of the first frame that fix
\* the minimum coordinates and the wavelength span, and two pixels that are
\* inside or outside the box, of inverse variance 0 or 2, in any of three
\* frames.
WeightPixel(ra, wave, ivar, idx) ==
    [ra |-> ra, dec |-> 1, wave |-> wave, sci |-> 2, ivar |-> ivar, idx |-> idx]
FreePixels(wave) ==
    {WeightPixel(ra, wave, ivar, idx) : ra \in {1, 5}, ivar \in {0, 2}, idx \in 0..2}
WeightTables ==
    {<<[ra |-> 0, dec |-> 0, wave |-> 0, sci |-> 1, ivar |-> 1, idx |-> 0],
       WeightPixel(1, top, 1, 0), a, b>> :
        top \in {3, 4}, a \in FreePixels(1), b \in FreePixels(1) \cup FreePixels(2)}

\* The weight spectra coadd.sn_weights may return for three frames.
WeightSpectra ==
    {[ff \in 1..3 |-> <<ff, ff, ff, ff>>], [ff \in 1..3 |-> <<ff, 2, 4, 8 + ff>>]}

WeightInputs ==
    [pix : WeightTables, whitelight_img : {<<<<0, 0, 0>>, <<0, 2, 2>>, <<0, 1, 0>>>>},
     dspat : {1}, dwv : {1}, weights : WeightSpectra]

\* The wavelengths of the current and of the reference blaze (one inside,
\* overlapping, or apart from the other) and the wavelengths of evaluation.
BlazeWaves == {<<1, 3, 5>>, <<3, 6, 9>>, <<5, 4, 3, 2>>, <<7, 9>>, <<2, 11>>}
GratingInputs ==
    [wave_eval : {<<1, 2, 3, 4, 5, 6, 7, 8, 9, 10, 11>>, <<4, 8>>},
     wave_curr : BlazeWaves, wave_ref : BlazeWaves]

\* Images of two pixels: counts in range, saturated, at the minimum and not
\* finite; with and without a bad-pixel mask, a cosmic-ray mask and an
\* inverse variance.
DetectorLimits == [saturation |-> QI(50), mincounts |-> Zero]
MaskImages ==
    [image : {<<QI(5), QI(100)>>, <<Zero, NaN>>, <<QI(5), QI(7)>>},
     bpm : {None, Some(<<0, 1>>)},
     crmask : {None, Some(<<FALSE, FALSE>>), Some(<<TRUE, FALSE>>), Some(<<TRUE, TRUE>>)},
     ivar : {None, Some(<<One, Zero>>), Some(<<NaN, One>>)},
     detector : {DetectorLimits}]
BuildMaskInputs ==
    [img : MaskImages, saturation : {None, Some(QI(6))}, mincounts : {None},
     slitmask : {None, Some(<<-1, 3>>)}]
CrMasks == [1..2 -> BOOLEAN]

InitUtil ==
    /\ inp = BaseInput
    /\ pc = "idle"
    /\ ncall = 1
    /\ numframes = 0
    /\ all_idx = <<>>
    /\ fr = 0 /\ sl = 0
    /\ flxcube = NoCube /\ varcube = NoCube /\ normcube = NoCube /\ bpmcube = NoCube
    /\ prev = [pc |-> "none"]
    /\ hits = <<>>
    /\ call = NoCall

GetWhitelightRange ==
    /\ call = NoCall
    /\ \E a \in WhitelightRangeInputs :
          call' = [fn |-> "get_whitelight_range", args |-> a,
                   ret |-> get_whitelight_range(a.wavemin, a.wavemax, a.wl_range)]
    /\ UNCHANGED subvars

MakeWhitelightFromCube ==
    /\ call = NoCall
    /\ \E a \in WhitelightCubeInputs :
          call' = [fn |-> "make_whitelight_fromcube", args |-> a,
                   ret |-> make_whitelight_fromcube(a.cube, a.nwave, a.wave,
                                                    a.wavemin, a.wavemax)]
    /\ UNCHANGED subvars

CreateWcs ==
    /\ call = NoCall
    /\ \E a \in CreateWcsInputs :
          call' = [fn |-> "create_wcs", args |-> a, ret |-> create_wcs(a)]
    /\ UNCHANGED subvars

WcsBounds ==
    /\ call = NoCall
    /\ \E a \in BoundsInputs :
          call' = [fn |-> "wcs_bounds", args |-> a,
                   ret |-> wcs_bounds(a.all_ra, a.all_dec, a.all_wave, a.ra_min, a.ra_max,
                                      a.dec_min, a.dec_max, a.wave_min, a.wave_max)]
    /\ UNCHANGED subvars

GetOutputFilename ==
    /\ call = NoCall
    /\ \E a \in OutputFilenameInputs :
          call' = [fn |-> "get_output_filename", args |-> a,
                   ret |-> get_output_filename(a.fil, a.par_outfile, a.combine, a.idx)]
    /\ UNCHANGED subvars

GetOutputWhitelightFilename ==
    /\ call = NoCall
    /\ \E outfile \in PrimaryNames :
          call' = [fn |-> "get_output_whitelight_filename", args |-> [outfile |-> outfile],
                   ret |-> get_output_whitelight_filename(outfile)]
    /\ UNCHANGED subvars

\* The helper has returned (or raised) and its caller goes on.
ComputeWeightsFrompix ==
    /\ call = NoCall
    /\ \E a \in WeightsRangeInputs :
          call' = [fn |-> "compute_weights_frompix", args |-> a,
                   ret |-> compute_weights_frompix(a.mnmx_wv, a.all_wave,
                                                   a.whitelight_range),
                   image |-> whitelight_image_args(a,
                                 compute_weights_frompix(a.mnmx_wv, a.all_wave,
                                                         a.whitelight_range))]
    /\ UNCHANGED subvars

ExtractStandardSpec ==
    /\ call = NoCall
    /\ \E a \in BoxcarInputs :
          call' = [fn |-> "extract_standard_spec", args |-> a,
                   ret |-> extract_boxcar(a.wl_img, a.mask, a.bpmcube, a.flxcube,
                                          a.varcube)]
    /\ UNCHANGED subvars

ComputeWeights ==
    /\ call = NoCall
    /\ \E a \in WeightInputs :
          call' = [fn |-> "compute_weights", args |-> a,
                   ret |-> compute_weights(a.pix, a.whitelight_img, a.dspat, a.dwv,
                                           a.weights)]
    /\ UNCHANGED subvars

CorrectGratingShift ==
    /\ call = NoCall
    /\ \E a \in GratingInputs :
          call' = [fn |-> "correct_grating_shift", args |-> a,
                   ret |-> correct_grating_shift(a.wave_eval, a.wave_curr, a.wave_ref)]
    /\ UNCHANGED subvars

\* PypeItImage.build_mask on a fresh object; the object is kept in call.
BuildMask ==
    /\ call = NoCall
    /\ \E a \in BuildMaskInputs :
          call' = [fn |-> "build_mask", args |-> a,
                   fullmask |-> build_mask(a.img, a.saturation, a.mincounts, a.slitmask)]
    /\ UNCHANGED subvars

\* PypeItImage.update_mask_cr on the object whose mask has been built.
UpdateMaskCr ==
    /\ call # NoCall /\ call.fn \in {"build_mask", "update_mask_cr"}
    /\ \E c \in CrMasks :
          call' = [fn |-> "update_mask_cr", args |-> [crmask_new |-> c],
                   before |-> call.fullmask,
                   fullmask |-> update_mask_cr(call.fullmask, c)]
    /\ UNCHANGED subvars

HelperReturn ==
    /\ call # NoCall
    /\ call' = NoCall
    /\ UNCHANGED subvars

NextUtil ==
    \/ GetWhitelightRange \/ MakeWhitelightFromCube \/ CreateWcs \/ WcsBounds
    \/ GetOutputFilename \/ GetOutputWhitelightFilename \/ ComputeWeightsFrompix
    \/ ExtractStandardSpec \/ ComputeWeights \/ CorrectGratingShift
    \/ BuildMask \/ UpdateMaskCr
    \/ HelperReturn

SpecUtil == InitUtil /\ [][NextUtil]_vars

\* ------------------------------------------------------------------------
\* Properties of the helpers
\* ------------------------------------------------------------------------
RECURSIVE IntSumOver(_, _)
IntSumOver(S, f) ==
    IF S = {} THEN 0
    ELSE LET k == CHOOSE x \in S : TRUE IN f[k] + IntSumOver(S \ {k}, f)

\* The wavelength slices inside the requested window, an absent limit being
\* no limit.
SlicesInWindow(a) ==
    {k \in 1..a.nwave :
        /\ a.wavemin.given => a.wave.val[k] >= a.wavemin.val
        /\ a.wavemax.given => a.wave.val[k] <= a.wavemax.val}

\* C7: the whitelight image of a cube is, per spaxel, the sum over the slices
\* with wavemin <= wave <= wavemax (all slices without a window) divided by
\* the number of those slices whose value is nonzero, and 0 when there is
\* none; a cube of a nonzero constant c gives an image of all c.
C7_WhitelightCollapse ==
    (call.fn = "make_whitelight_fromcube" /\ ~call.ret.raised) =>
        LET a == call.args
            img == call.ret.wl_img
            sel == SlicesInWindow(a)
        IN  /\ DOMAIN img = DOMAIN a.cube
            /\ \A p \in DOMAIN a.cube :
                  LET nz == Cardinality({k \in sel : a.cube[p][k] # 0})
                  IN  IF nz = 0 THEN img[p] = Zero
                      ELSE QMul(img[p], QI(nz)) = QI(IntSumOver(sel, a.cube[p]))
            /\ \A c \in CubeValues \ {0} :
                  (/\ ~a.wavemin.given /\ ~a.wavemax.given
                   /\ \A p \in DOMAIN a.cube : \A k \in 1..a.nwave : a.cube[p][k] = c)
                  => \A p \in DOMAIN img : img[p] = QI(c)

C7_Witness ==
    /\ call.fn = "make_whitelight_fromcube"
    /\ ~call.ret.raised
    /\ call.args.wavemin.given /\ call.args.wavemax.given
    /\ Cardinality(SlicesInWindow(call.args)) = 2
    /\ call.args.nwave = 3
    /\ \E k, j \in SlicesInWindow(call.args) :
          call.args.cube[1][k] = 0 /\ call.args.cube[1][j] = 2
    /\ call.ret.wl_img[1] = QI(2)

\* The number of voxels an axis would hold: (max - min) * scale / step.
Extent(lo, hi, scale, step) == QDiv(QMul(QSub(hi, lo), scale), step)

EffMin(opt, data) ==
    IF opt.given THEN opt.val
    ELSE CHOOSE x \in {data[k] : k \in DOMAIN data} : \A k \in DOMAIN data : QLe(x, data[k])
EffMax(opt, data) ==
    IF opt.given THEN opt.val
    ELSE CHOOSE x \in {data[k] : k \in DOMAIN data} : \A k \in DOMAIN data : QLe(data[k], x)

ExtentRa(a) ==
    Extent(EffMin(a.ra_min, a.all_ra), EffMax(a.ra_max, a.all_ra),
           CosDeg(npmean(a.all_dec)), a.dspat)
ExtentDec(a) ==
    Extent(EffMin(a.dec_min, a.all_dec), EffMax(a.dec_max, a.all_dec), One, a.dspat)
ExtentWave(a) ==
    Extent(EffMin(a.wave_min, a.all_wave), EffMax(a.wave_max, a.all_wave), One, a.dwave)

IsFloorOf(n, x) == QLe(QI(n), x) /\ QLt(x, QI(n + 1))
IsCeilingOf(n, x) == QLt(QI(n - 1), x) /\ QLe(x, QI(n))
IsTruncationOf(n, x) == IF QLe(Zero, x) THEN IsFloorOf(n, x) ELSE IsCeilingOf(n, x)
IsRoundOf(n, x) ==
    /\ QLe(QSub(QI(2 * n), One), QMul(QI(2), x))
    /\ QLe(QMul(QI(2), x), QAdd(QI(2 * n), One))

\* n + 1 edges running from -0.5 to n - 0.5 in steps of one.
EdgesOf(e, n) ==
    /\ Len(e) = n + 1
    /\ \A k \in 1..Len(e) : e[k] = Q(2 * k - 3, 2)

PlainGridCall ==
    /\ call.fn = "create_wcs"
    /\ ~call.args.reference.given
    /\ ~call.args.collapse

\* C8 (as stated): without reference image and collapse, for every set of
\* bounds, numra and numdec are the floors and numwav the rounding of the
\* extents over the steps, each axis has N + 1 edges from -0.5 to N - 0.5,
\* and one degree in steps of 0.0001 degree at cos(dec) = 1 gives numra = 10000.
C8_FloorCounts ==
    PlainGridCall =>
        /\ IsFloorOf(call.ret.numra, ExtentRa(call.args))
        /\ IsFloorOf(call.ret.numdec, ExtentDec(call.args))
        /\ IsRoundOf(call.ret.numwav, ExtentWave(call.args))
        /\ \A i \in 1..3 :
              LET n == <<call.ret.numra, call.ret.numdec, call.ret.numwav>>[i]
              IN  n >= 0 => EdgesOf(call.ret.voxedges[i], n)
        /\ call.args = FineGridInput => call.ret.numra = 10000

\* C8 (amended): numra and numdec are the extents over the steps truncated
\* towards zero, which is the floor whenever the upper bound is not below the
\* lower one, and numwav is the extent over dwave rounded to the nearest
\* integer; an axis of N >= 0 voxels has N + 1 edges from -0.5 to N - 0.5 and
\* an axis of negative N has none; the fine grid has numra = 10000.
C8_TruncatedCounts ==
    PlainGridCall =>
        LET a == call.args
            r == call.ret
        IN  /\ IsTruncationOf(r.numra, ExtentRa(a))
            /\ IsTruncationOf(r.numdec, ExtentDec(a))
            /\ QLe(Zero, ExtentRa(a)) => IsFloorOf(r.numra, ExtentRa(a))
            /\ QLe(Zero, ExtentDec(a)) => IsFloorOf(r.numdec, ExtentDec(a))
            /\ IsRoundOf(r.numwav, ExtentWave(a))
            /\ \A i \in 1..3 :
                  LET n == <<r.numra, r.numdec, r.numwav>>[i]
                  IN  IF n >= 0 THEN EdgesOf(r.voxedges[i], n) ELSE r.voxedges[i] = <<>>
            /\ a = FineGridInput => r.numra = 10000

C8_Witness ==
    /\ PlainGridCall
    /\ call.args.ra_min.given
    /\ call.ret.cosdec = Half
    /\ call.ret.numra = 1
    /\ QLt(One, ExtentRa(call.args))
    /\ call.ret.numdec = 4
    /\ call.ret.numwav = 2 /\ ExtentWave(call.args) = Q(5, 2)

\* C9: each element of the returned range is the user's value when given and
\* the automatic one otherwise (so [None, None] gives [wavemin, wavemax]); a
\* user value outside [wavemin, wavemax] is returned unchanged with a warning
\* and the call never fails.
C9_WhitelightRange ==
    call.fn = "get_whitelight_range" =>
        LET a == call.args
            r == call.ret
        IN  /\ ~r.raised
            /\ (a.wl_range = <<None, None>>) => r.wlrng = <<a.wavemin, a.wavemax>>
            /\ r.wlrng[1] = IF a.wl_range[1] = None THEN a.wavemin ELSE a.wl_range[1].val
            /\ r.wlrng[2] = IF a.wl_range[2] = None THEN a.wavemax ELSE a.wl_range[2].val
            /\ "min" \in r.warnings <=> (a.wl_range[1] # None /\ a.wl_range[1].val < a.wavemin)
            /\ "max" \in r.warnings <=> (a.wl_range[2] # None /\ a.wl_range[2].val > a.wavemax)

C9_Witness ==
    /\ call.fn = "get_whitelight_range"
    /\ call.args.wl_range[1] = Some(0)
    /\ call.args.wl_range[2] = None
    /\ call.args.wavemin = 2
    /\ call.ret.wlrng = <<0, call.args.wavemax>>
    /\ call.ret.warnings = {"min"}

\* C10: with collapse = True the spectral axis has exactly one bin, edges
\* [-0.5, 0.5], starting at min(all_wave) with step max(all_wave) -
\* min(all_wave), whatever dwave, wave_min and wave_max were requested.
C10_CollapseOneBin ==
    (call.fn = "create_wcs" /\ call.args.collapse) =>
        LET a == call.args
            r == call.ret
            lo == EffMin(None, a.all_wave)
            hi == EffMax(None, a.all_wave)
        IN  /\ r.voxedges[3] = <<Q(-1, 2), Half>>
            /\ r.numwav = 1
            /\ r.cubewcs.crval[3] = lo
            /\ r.cubewcs.cdelt[3] = QSub(hi, lo)

C10_Witness ==
    /\ call.fn = "create_wcs"
    /\ call.args.collapse
    /\ call.args.wave_min = Some(QI(9))
    /\ call.args.wave_max = Some(QI(14))
    /\ call.args.dwave = QI(2)
    /\ call.ret.cubewcs.crval[3] = QI(10)
    /\ call.ret.cubewcs.cdelt[3] = Q(5, 2)
    /\ Len(call.ret.voxedges[3]) = 2

\* What wcs_bounds returns for the arguments a when only the override named
\* keep is passed on.
BoundsWithOnly(a, keep) ==
    wcs_bounds(a.all_ra, a.all_dec, a.all_wave,
               IF keep = "ra_min" THEN a.ra_min ELSE None,
               IF keep = "ra_max" THEN a.ra_max ELSE None,
               IF keep = "dec_min" THEN a.dec_min ELSE None,
               IF keep = "dec_max" THEN a.dec_max ELSE None,
               IF keep = "wave_min" THEN a.wave_min ELSE None,
               IF keep = "wave_max" THEN a.wave_max ELSE None)

\* C11: each of the six bounds returned by wcs_bounds is its own override
\* when one is supplied (0 included) and otherwise the minimum or maximum of
\* its coordinate array; the overrides of the other bounds do not change it.
C11_BoundsPerAxis ==
    call.fn = "wcs_bounds" =>
        LET a == call.args
            r == call.ret
        IN  /\ r.ra_min = EffMin(a.ra_min, a.all_ra)
            /\ r.ra_max = EffMax(a.ra_max, a.all_ra)
            /\ r.dec_min = EffMin(a.dec_min, a.all_dec)
            /\ r.dec_max = EffMax(a.dec_max, a.all_dec)
            /\ r.wav_min = EffMin(a.wave_min, a.all_wave)
            /\ r.wav_max = EffMax(a.wave_max, a.all_wave)
            /\ r.ra_min = BoundsWithOnly(a, "ra_min").ra_min
            /\ r.ra_max = BoundsWithOnly(a, "ra_max").ra_max
            /\ r.dec_min = BoundsWithOnly(a, "dec_min").dec_min
            /\ r.dec_max = BoundsWithOnly(a, "dec_max").dec_max
            /\ r.wav_min = BoundsWithOnly(a, "wave_min").wav_min
            /\ r.wav_max = BoundsWithOnly(a, "wave_max").wav_max

C11_Witness ==
    /\ call.fn = "wcs_bounds"
    /\ call.args.ra_min = Some(Zero) /\ call.ret.ra_min = Zero
    /\ call.args.ra_max = None /\ call.ret.ra_max = QI(2)
    /\ call.args.dec_min = None /\ call.ret.dec_min = QI(-3)
    /\ call.args.dec_max = Some(Zero) /\ call.ret.dec_max = Zero
    /\ call.args.wave_min = Some(QI(9)) /\ call.ret.wav_min = QI(9)
    /\ call.args.wave_max = None /\ call.ret.wav_max = QI(13)

LoopPairs(in, nf) ==
    LET per == [f \in 1..nf |-> Len(in.slits.items[f].spat_id)]
    IN  [k \in 1..SumInt(per) |->
           LET f == CHOOSE g \in 1..nf :
                       /\ SumInt(SubSeq(per, 1, g - 1)) < k
                       /\ k <= SumInt(SubSeq(per, 1, g))
           IN  <<f - 1, k - SumInt(SubSeq(per, 1, f - 1)) - 1>>]

\* Line 1470 for the pair <<frame, slit number>>.
PairPixels(in, aidx, pair) ==
    this_sl(in, aidx, pair[1], in.slits.items[pair[1] + 1].spat_id[pair[2] + 1])

\* Lines 1502-1504: the three accumulators after one more pair.
AddContribution(a, c) ==
    [flx |-> CubeAdd(a.flx, c.flx), var |-> CubeAdd(a.var, c.var),
     norm |-> CubeAdd(a.norm, c.norm)]

PairContribution(in, sel, pair) ==
    SlitContribution(in, sel, SlitAddr(in, sel, pair[1], pair[2]))

\* Lines 1448, 1460-1504: the accumulators after the first k pairs.
RECURSIVE AccumulatePairs(_, _, _, _)
AccumulatePairs(in, aidx, pairs, k) ==
    IF k = 0 THEN [flx |-> ZeroCube(in), var |-> ZeroCube(in), norm |-> ZeroCube(in)]
    ELSE AddContribution(AccumulatePairs(in, aidx, pairs, k - 1),
                         PairContribution(in, PairPixels(in, aidx, pairs[k]), pairs[k]))

\* Lines 1507-1515.
NormalisedCubes(a) ==
    [raised |-> FALSE,
     flxcube |-> NormaliseFlux(a.flx, a.norm),
     varcube |-> NormaliseVar(a.var, a.norm),
     bpmcube |-> BadPixelMask(a.norm)]

\* Lines 1460-1515; a pair without pixels makes interp1d raise ValueError.
SubpixellateLoop(in, aidx, pairs) ==
    IF \E k \in 1..Len(pairs) : PairPixels(in, aidx, pairs[k]) = <<>>
    THEN [raised |-> TRUE, error |-> "ValueError"]
    ELSE NormalisedCubes(AccumulatePairs(in, aidx, pairs, Len(pairs)))

\* Lines 1418-1515: what a call of subpixellate returns or raises.
subpixellate(in) ==
    IF CheckArgs(in) = "lists"
    THEN SubpixellateLoop(in,
             [p \in 1..Len(in.pix) |-> IF in.idx_given THEN in.pix[p].idx ELSE 0],
             LoopPairs(in, Len(in.tilts.items)))
    ELSE IF CheckArgs(in) = "single"
    THEN SubpixellateLoop(in, [p \in 1..Len(in.pix) |-> 0], LoopPairs(in, 1))
    ELSE [raised |-> TRUE, error |-> CheckArgs(in)]

\* Lines 1157, 1161: np.unique(_all_idx).size.
NumFrameIndices(in) ==
    IF in.idx_given THEN Cardinality({in.pix[p].idx : p \in 1..Len(in.pix)}) ELSE 1

\* Faulty variant: the lengths of the collections are not compared with numfr.
ImageCheckNone(in, combine) == "ok"

\* Lines 1158-1164.
ImageCheck(in, combine) ==
    IF combine THEN "ok"
    ELSE IF \E k \in 1..4 : Len(Collaborators(in)[k].items) # NumFrameIndices(in)
    THEN "error_length"
    ELSE "ok"

\* Lines 1175-1178: the arguments of the one call made when combine is True
\* (all_idx is always passed, as zeros when it was None).
CombinedCall(in) ==
    [in EXCEPT !.idx_given = TRUE,
               !.pix = [p \in 1..Len(in.pix) |->
                          [in.pix[p] EXCEPT !.idx = IF in.idx_given THEN @ ELSE 0]]]

\* Lines 1180-1185: the arguments of the call for frame f (0-based) when
\* combine is False: the pixels of the frame, its four collaborators as bare
\* objects, and no all_idx.
FrameCall(in, f) ==
    [in EXCEPT !.pix = SelectSeq(in.pix, LAMBDA r : (IF in.idx_given THEN r.idx ELSE 0) = f),
               !.tilts = Arg(FALSE, <<in.tilts.items[f + 1]>>),
               !.slits = Arg(FALSE, <<in.slits.items[f + 1]>>),
               !.astrom_trans = Arg(FALSE, <<in.astrom_trans.items[f + 1]>>),
               !.all_dar = Arg(FALSE, <<in.all_dar.items[f + 1]>>),
               !.idx_given = FALSE]

\* Line 1186: img[:, :, 0].
FirstChannel(in, cube) ==
    [xy \in (0..(outshape(in)[1] - 1)) \X (0..(outshape(in)[2] - 1)) |->
        cube[<<xy[1], xy[2], 0>>]]

\* Calls of generate_image_subpixel: the inconsistent and single-frame calls
\* and the list calls of one subpixellation.
ImageInputs ==
    OtherInputs \cup
    {i \in ListInputs : i.spec_subpixel = 1 /\ i.spat_subpixel = MaxSubpixel}

InitImage == InitSub /\ inp \in ImageInputs

\* Lines 1156-1168 of generate_image_subpixel, called on the arguments inp.
ImageBegin ==
    /\ pc = "call" /\ ncall = 1 /\ call = NoCall
    /\ \A k \in 1..4 : Collaborators(inp)[k].islist
    /\ \E combine \in BOOLEAN :
          IF ImageCheck(inp, combine) = "ok"
          THEN call' = [fn |-> "generate_image_subpixel", combine |-> combine,
                        pc |-> "loop", fr |-> 0,
                        numfr |-> IF combine THEN 1 ELSE NumFrameIndices(inp),
                        all_wl_imgs |-> <<>>]
          ELSE call' = [fn |-> "generate_image_subpixel", combine |-> combine,
                        pc |-> "raised", fr |-> 0, numfr |-> NumFrameIndices(inp),
                        all_wl_imgs |-> <<>>]
    /\ pc' = "image"
    /\ UNCHANGED <<inp, ncall, numframes, all_idx, fr, sl, flxcube, varcube, normcube,
                   bpmcube, prev, hits>>

\* Lines 1171-1188: one pass of the loop over the frames; the function
\* returns after the last one.
ImageFrame ==
    /\ pc = "image" /\ call.pc = "loop"
    /\ \E r \in {subpixellate(IF call.combine THEN CombinedCall(inp)
                              ELSE FrameCall(inp, call.fr))} :
          IF r.raised
          THEN call' = [call EXCEPT !.pc = "raised"]
          ELSE call' = [call EXCEPT
                           !.all_wl_imgs = Append(@, FirstChannel(inp, r.flxcube)),
                           !.fr = @ + 1,
                           !.pc = IF call.fr + 1 < call.numfr THEN "loop" ELSE "done"]
    /\ UNCHANGED subvars

\* np.sqrt of a finite value that is not negative: a rational when numerator
\* and denominator are squares, and the surd itself otherwise.
npsqrt(a) ==
    IF \E n \in 0..a.n, d \in 1..a.d : n * n = a.n /\ d * d = a.d
    THEN LET n == CHOOSE x \in 0..a.n : x * x = a.n
             d == CHOOSE x \in 1..a.d : x * x = a.d
         IN  Q(n, d)
    ELSE [sqrt_of |-> a]

\* cube.T: the axes in reverse order.
Transpose(cube) ==
    [v \in {<<u[3], u[2], u[1]>> : u \in DOMAIN cube} |-> cube[<<v[3], v[2], v[1]>>]]

\* Line 1306: output_wcs.spectral.wcs_pix2world(np.arange(nspec), 0), the
\* inverse of wcs_world2pix on the wavelength axis.
SpectralAxis(w, nspec) ==
    [k \in 1..nspec |-> QAdd(w.crval[3], QMul(w.cdelt[3], QI(k)))]

\* Lines 1309-1316: the list whitelight_range as the call leaves it; an
\* entry that was None is overwritten in the caller's list.
whitelight_range_after(all_wave, whitelight_range) ==
    IF ~whitelight_range.given THEN whitelight_range
    ELSE Some(<<IF whitelight_range.val[1].given THEN whitelight_range.val[1]
                ELSE Some(npmin(all_wave)),
                IF whitelight_range.val[2].given THEN whitelight_range.val[2]
                ELSE Some(npmax(all_wave))>>)

\* Lines 1302-1326 with debug = False: what the call returns, the files it
\* writes and the state of whitelight_range afterwards, given what
\* subpixellate returned.
CubeProducts(in, outfile, whitelight_range, subpix) ==
    IF subpix.raised
    THEN [raised |-> TRUE, error |-> subpix.error,
          whitelight_range |-> whitelight_range, written |-> {}]
    ELSE [raised |-> FALSE,
          flxcube |-> Transpose(subpix.flxcube),
          sigcube |-> Transpose([v \in DOMAIN subpix.varcube |-> npsqrt(subpix.varcube[v])]),
          bpmcube |-> Transpose(subpix.bpmcube),
          wave |-> SpectralAxis(in.output_wcs, outshape(in)[3]),
          whitelight_range |->
              whitelight_range_after([p \in 1..Len(in.pix) |-> in.pix[p].wave],
                                     whitelight_range),
          written |-> IF whitelight_range.given
                      THEN {get_output_whitelight_filename(outfile)} ELSE {}]

\* Lines 1285-1326.
generate_cube_subpixel(in, outfile, whitelight_range) ==
    CubeProducts(in, outfile, whitelight_range, subpixellate(in))

\* The whitelight_range keyword: None, a list of two None, a list with the
\* lower limit given.
CubeRanges == {None, Some(<<None, None>>), Some(<<Some(Zero), None>>)}

\* A call of generate_cube_subpixel on the arguments inp.
GenerateCube ==
    /\ pc = "call" /\ ncall = 1 /\ call = NoCall
    /\ \E wr \in CubeRanges :
       \E r \in {generate_cube_subpixel(inp, DatacubeFits, wr)} :
          call' = [fn |-> "generate_cube_subpixel",
                   args |-> [outfile |-> DatacubeFits, whitelight_range |-> wr],
                   ret |-> r]
    /\ pc' = "cube"
    /\ UNCHANGED <<inp, ncall, numframes, all_idx, fr, sl, flxcube, varcube, normcube,
                   bpmcube, prev, hits>>

\* The local all_idx and the (frame, slit) pairs of a call whose arguments
\* pass the checks (lines 1419-1441).
LocalIdx(in) ==
    [p \in 1..Len(in.pix) |->
        IF CheckArgs(in) = "lists" /\ in.idx_given THEN in.pix[p].idx ELSE 0]
LocalPairs(in) ==
    LoopPairs(in, IF CheckArgs(in) = "lists" THEN Len(in.tilts.items) ELSE 1)

\* Line 1508: the weights of the residual histogram of one pair.
ResidWeights(in, sel) ==
    [i \in 1..Len(sel) |-> QMul(QI(in.pix[sel[i]].sci), npsqrt(QI(in.pix[sel[i]].ivar)))]

\* Lines 1507-1508: what one pair adds to residcube.
ResidContribution(in, sel, addr) ==
    histogramdd(addr, outshape(in), repeat(ResidWeights(in, sel), num_subpixels(in)))
PairResid(in, sel, pair) ==
    ResidContribution(in, sel, SlitAddr(in, sel, pair[1], pair[2]))

\* Lines 1449-1450, 1507-1508: residcube after the first k pairs.
RECURSIVE AccumulateResid(_, _, _, _)
AccumulateResid(in, aidx, pairs, k) ==
    IF k = 0 THEN ZeroCube(in)
    ELSE CubeAdd(AccumulateResid(in, aidx, pairs, k - 1),
                 PairResid(in, PairPixels(in, aidx, pairs[k]), pairs[k]))

\* Faulty variant: the residual cube is returned in the place of the flux cube.
DebugReturnResidual(r, resid, norm) ==
    [raised |-> FALSE, flxcube |-> NormaliseFlux(resid, norm), varcube |-> r.varcube,
     bpmcube |-> r.bpmcube, residcube |-> NormaliseFlux(resid, norm)]

\* Lines 1512-1514: residcube *= nc_inverse and the four cubes returned.
DebugReturn(r, resid, norm) ==
    [raised |-> FALSE, flxcube |-> r.flxcube, varcube |-> r.varcube,
     bpmcube |-> r.bpmcube, residcube |-> NormaliseFlux(resid, norm)]

\* Lines 1447-1514 with debug = True.  r is what the call returns with
\* debug = False.
DebugCubes(in, r, aidx, pairs) ==
    IF r.raised THEN r
    ELSE DebugReturn(r, AccumulateResid(in, aidx, pairs, Len(pairs)),
                     AccumulatePairs(in, aidx, pairs, Len(pairs)).norm)

\* Lines 1418-1515 with debug = True.
subpixellate_debug(in) == DebugCubes(in, subpixellate(in), LocalIdx(in), LocalPairs(in))

\* The calls whose inverse variances have a rational square root.
DebugInputs == {i \in ImageInputs : \A p \in 1..Len(i.pix) : i.pix[p].ivar \in {0, 1}}

\* Two calls of subpixellate on the arguments inp, with debug False and True.
SubpixellateDebug ==
    /\ pc = "call" /\ ncall = 1 /\ call = NoCall
    /\ inp \in DebugInputs
    /\ \E r \in {subpixellate(inp)} :
       \E d \in {DebugCubes(inp, r, LocalIdx(inp), LocalPairs(inp))} :
          call' = [fn |-> "subpixellate", plain |-> r, debug |-> d]
    /\ pc' = "debug"
    /\ UNCHANGED <<inp, ncall, numframes, all_idx, fr, sl, flxcube, varcube, normcube,
                   bpmcube, prev, hits>>

NextImage ==
    \/ NextSub \/ ImageBegin \/ ImageFrame \/ GenerateCube \/ SubpixellateDebug

SpecImage == InitImage /\ [][NextImage]_vars

\* The inconsistent configurations of subpixellate: lists of unequal length,
\* lists mixed with bare objects, several frames without all_idx.
ListsOf(in) == {k \in 1..4 : Collaborators(in)[k].islist}
UnequalLists(in) ==
    /\ ListsOf(in) = 1..4
    /\ Cardinality({Len(Collaborators(in)[k].items) : k \in 1..4}) > 1
MixedLists(in) == ListsOf(in) # {} /\ ListsOf(in) # 1..4
MissingIndex(in) ==
    /\ ListsOf(in) = 1..4
    /\ ~UnequalLists(in)
    /\ Len(in.tilts.items) > 1 /\ ~in.idx_given
Inconsistent(in) == UnequalLists(in) \/ MixedLists(in) \/ MissingIndex(in)

\* C13: an inconsistent configuration is fatal before any pixel is
\* accumulated.  subpixellate called with lists of unequal length, with lists
\* and bare objects mixed, or with lists of several frames and no all_idx
\* raises without entering the loop and returns no cube; generate_image_subpixel
\* with combine = False raises before its first frame when a collection's
\* length differs from the number of frame indices, and returns no image;
\* generate_cube_subpixel on an inconsistent configuration raises with
\* subpixellate and writes no file.
C13_ConfigErrorsFatal ==
    /\ Inconsistent(inp) =>
          /\ pc \in {"call", "raised", "image", "cube", "debug"}
          /\ pc = "cube" => call.ret.raised /\ call.ret.written = {}
          /\ pc = "debug" => call.plain.raised /\ call.debug.raised
          /\ hits = <<>>
          /\ flxcube = NoCube /\ varcube = NoCube /\ normcube = NoCube /\ bpmcube = NoCube
          /\ pc = "raised" => Returned = [pc |-> "raised"]
    /\ (pc = "raised" /\ hits = <<>> /\ normcube = NoCube) => Inconsistent(inp)
    /\ (call.fn = "generate_image_subpixel" /\ ~call.combine) =>
          LET bad == \E k \in 1..4 :
                        Len(Collaborators(inp)[k].items) # NumFrameIndices(inp)
          IN  /\ bad => (call.pc = "raised" /\ call.fr = 0 /\ call.all_wl_imgs = <<>>)
              /\ (call.pc = "raised" /\ call.fr = 0) =>
                    (bad \/ subpixellate(FrameCall(inp, 0)).raised)

C13_Witness ==
    /\ pc = "raised"
    /\ ListsOf(inp) = 1..4
    /\ \A k \in 1..4 : Len(Collaborators(inp)[k].items) = 2
    /\ ~inp.idx_given
    /\ hits = <<>>

\* ------------------------------------------------------------------------
\* Properties of the file names
\* ------------------------------------------------------------------------
\* name[k] is the dot that starts the file extension: the last dot of the
\* last path component, with a character other than a dot before it there.
ExtensionAt(name, k) ==
    /\ name[k] = "."
    /\ \A j \in (k + 1)..Len(name) : name[j] # "." /\ name[j] # "/"
    /\ \E j \in 1..(k - 1) : name[j] # "." /\ \A i \in j..k : name[i] # "/"

ExtensionOf(name) ==
    IF \E k \in 1..Len(name) : ExtensionAt(name, k)
    THEN SubSeq(name, CHOOSE k \in 1..Len(name) : ExtensionAt(name, k), Len(name))
    ELSE <<>>

StemOf(name) == SubSeq(name, 1, Len(name) - Len(ExtensionOf(name)))

Underscore == <<"_">>
WhitelightSuffix == <<"_", "w", "h", "i", "t", "e", "l", "i", "g", "h", "t">>

\* C14 (as stated): the whitelight name of every primary output name is that
\* name with '_whitelight' inserted just before its extension, the extension
\* being kept.
C14_SuffixBeforeExtension ==
    call.fn = "get_output_whitelight_filename" =>
        call.ret = StemOf(call.args.outfile) \o WhitelightSuffix
                       \o ExtensionOf(call.args.outfile)

\* C14 (amended): the whitelight name is the primary name without its
\* extension followed by '_whitelight.fits': the suffix is inserted before the
\* extension when that is '.fits', and any other extension, or none, is
\* replaced by '.fits'; the result depends on the name only.
C14_SuffixReplacesExtension ==
    call.fn = "get_output_whitelight_filename" =>
        LET name == call.args.outfile
        IN  /\ call.ret = StemOf(name) \o WhitelightSuffix \o DotFits
            /\ ExtensionOf(name) = DotFits =>
                  call.ret = StemOf(name) \o WhitelightSuffix \o ExtensionOf(name)
            /\ call.ret = get_output_whitelight_filename(name)

C14_Witness ==
    /\ call.fn = "get_output_whitelight_filename"
    /\ ExtensionOf(call.args.outfile) = DotFits
    /\ \E k \in 1..Len(call.args.outfile) : call.args.outfile[k] = "/"
    /\ Len(StemOf(call.args.outfile)) > 2
    /\ call.ret = StemOf(call.args.outfile) \o WhitelightFits

EndsWith(str, suffix) ==
    Len(str) >= Len(suffix) /\ SubSeq(str, Len(str) - Len(suffix) + 1, Len(str)) = suffix

OccursAt(str, sub, i) ==
    i + Len(sub) - 1 <= Len(str) /\ \A j \in 1..Len(sub) : str[i + j - 1] = sub[j]

Occurs(str, sub) == \E i \in 1..Len(str) : OccursAt(str, sub, i)

\* The number written by a sequence of decimal digits.
RECURSIVE DigitValue(_)
DigitValue(ds) ==
    IF ds = <<>> THEN 0
    ELSE 10 * DigitValue(SubSeq(ds, 1, Len(ds) - 1))
         + (CHOOSE v \in 0..9 :
               <<"0", "1", "2", "3", "4", "5", "6", "7", "8", "9">>[v + 1] = ds[Len(ds)])

\* ds writes idx with at least three digits, zeros being added only to reach
\* three.
IsPadded3(ds, idx) ==
    /\ Len(ds) >= 3
    /\ DigitValue(ds) = idx
    /\ Len(ds) > 3 => ds[1] # "0"

\* out is fil with every 'spec2d_' turned into 'spec3d_'.
IsSpec3dOf(out, fil) ==
    /\ Len(out) = Len(fil)
    /\ ~Occurs(out, Spec2dPrefix)
    /\ \A i \in 1..Len(fil) : OccursAt(fil, Spec2dPrefix, i) => OccursAt(out, Spec3dPrefix, i)
    /\ \A i \in 1..Len(fil) :
          out[i] # fil[i] => (i > 4 /\ OccursAt(fil, Spec2dPrefix, i - 4))

\* The second and third cases of get_output_filename (combine = False).
SeparateNames(a, ret) ==
    IF a.par_outfile = <<>> THEN IsSpec3dOf(ret, a.fil)
    ELSE \E ds \in {SubSeq(ret, Len(StemOf(a.par_outfile)) + 2, Len(ret) - 5)} :
            /\ ret = StemOf(a.par_outfile) \o Underscore \o ds \o DotFits
            /\ IsPadded3(ds, a.idx)

\* C15 (as stated): with combine = True the result is par_outfile (or
\* 'datacube.fits'), with '.fits' appended when the name has no '.fits'
\* extension, and always ends in '.fits'; with combine = False it is fil with
\* 'spec2d_' replaced by 'spec3d_' when par_outfile is empty, and otherwise
\* par_outfile without its extension, '_', idx padded to three digits, '.fits'.
C15_AlwaysDotFits ==
    call.fn = "get_output_filename" =>
        LET a == call.args
            par == IF a.par_outfile = <<>> THEN DatacubeFits ELSE a.par_outfile
        IN  IF a.combine
            THEN /\ call.ret = IF ExtensionOf(par) = DotFits THEN par ELSE par \o DotFits
                 /\ EndsWith(call.ret, DotFits)
            ELSE SeparateNames(a, call.ret)

\* C15 (amended): with combine = True the result is par_outfile (or
\* 'datacube.fits'), with '.fits' appended only when '.fits' occurs nowhere in
\* the name, so it always contains '.fits' and ends in it whenever the name
\* had the extension '.fits' or did not contain '.fits'; the two cases of
\* combine = False are as stated, and the result depends on the arguments only.
C15_ContainsDotFits ==
    call.fn = "get_output_filename" =>
        LET a == call.args
            par == IF a.par_outfile = <<>> THEN DatacubeFits ELSE a.par_outfile
        IN  /\ IF a.combine
               THEN /\ call.ret = IF Occurs(par, DotFits) THEN par ELSE par \o DotFits
                    /\ Occurs(call.ret, DotFits)
                    /\ (ExtensionOf(par) = DotFits \/ ~Occurs(par, DotFits))
                          => EndsWith(call.ret, DotFits)
               ELSE SeparateNames(a, call.ret)
            /\ call.ret = get_output_filename(a.fil, a.par_outfile, a.combine, a.idx)

C15_Witness ==
    /\ call.fn = "get_output_filename"
    /\ ~call.args.combine
    /\ call.args.idx = 12
    /\ ExtensionOf(call.args.par_outfile) = DotGz
    /\ Len(StemOf(call.args.par_outfile)) = 2
    /\ call.ret = StemOf(call.args.par_outfile) \o <<"_", "0", "1", "2">> \o DotFits

\* ------------------------------------------------------------------------
\* Properties of the resampled values
\* ------------------------------------------------------------------------
\* sci_s * w_s of one subpixel.
HitFlux(k) == QMul(QI(inp.pix[hits[k].pix].sci), HitWeight(k))
HitFluxes == [k \in 1..Len(hits) |-> HitFlux(k)]
\* The weight that reached voxel v.
WeightIn(v) == SumOver(HitsIn(v), HitWeights)

\* C16: when subpixellate returns, every voxel v whose normalisation
\* (sum of w_s over the subpixels s that landed in v) is nonzero holds
\* flux[v] = (sum of sci_s * w_s) / (sum of w_s) and
\* variance[v] = (sum of inverse(ivar_s) * w_s^2) / (sum of w_s)^2, with
\* w_s = weight_s / (spec_subpixel * spat_subpixel).
C16_WeightedMean ==
    pc = "done" =>
        \A v \in DOMAIN flxcube :
            WeightIn(v) # Zero =>
                /\ flxcube[v] = QDiv(SumOver(HitsIn(v), HitFluxes), WeightIn(v))
                /\ varcube[v] = QDiv(SumOver(HitsIn(v), HitVars),
                                     QMul(WeightIn(v), WeightIn(v)))

\* A voxel that received subpixels of different fluxes and weights, with
\* more than one subpixel per pixel.
C16_Witness ==
    /\ pc = "done"
    /\ NSub > 1
    /\ \E v \in DOMAIN flxcube :
          /\ WeightIn(v) # Zero
          /\ \E j, k \in HitsIn(v) :
                /\ inp.pix[hits[j].pix].sci # inp.pix[hits[k].pix].sci
                /\ HitWeight(j) # HitWeight(k)
          /\ varcube[v] # Zero
          /\ flxcube[v] # Zero

\* The pixels of the pair (fr, sl) that the slit loop is about to process.
PairPixelSet ==
    {p \in 1..Len(inp.pix) :
        /\ inp.pix[p].spatid = inp.slits.items[fr + 1].spat_id[sl + 1]
        /\ all_idx[p] = fr}
\* The subpixels that one pass of the slit loop has added to the history.
NewHits == (Len(hits) + 1)..Len(hits')
NewHitsIn(v) == {k \in NewHits : hits'[k].vox = v}

\* C17: one pass of the slit loop gives every pixel of its (frame, slit) pair
\* spec_subpixel * spat_subpixel subpixels with one voxel address each; the
\* address is a voxel of the cube or out of range; every voxel of the three
\* accumulators grows by the flux, variance and normalisation weights of
\* exactly the subpixels addressed to it, so a subpixel in range is counted in
\* one voxel, the same in all three, and one out of range in none; and the
\* pass does not raise.
C17_OneVoxelPerSubpixel ==
    [][pc = "loop" /\ PairPixelSet # {} =>
          /\ pc' # "raised"
          /\ SubSeq(hits', 1, Len(hits)) = hits
          /\ \A k \in NewHits : /\ hits'[k].pix \in PairPixelSet
                                /\ hits'[k].vox \in DOMAIN normcube \cup {OutOfRange}
          /\ \A p \in PairPixelSet : Cardinality({k \in NewHits : hits'[k].pix = p}) = NSub
          /\ \A v \in DOMAIN normcube :
                /\ normcube'[v] = QAdd(normcube[v], SumOver(NewHitsIn(v), HitWeights'))
                /\ flxcube'[v] = QAdd(flxcube[v], SumOver(NewHitsIn(v), HitFluxes'))
                /\ varcube'[v] = QAdd(varcube[v], SumOver(NewHitsIn(v), HitVars'))]_vars

\* A pass has put two subpixels of one pixel into different voxels and
\* dropped a subpixel of positive weight that was out of range.
C17_Witness ==
    /\ pc \in {"loop", "normalise"}
    /\ NSub > 1
    /\ \E j, k \in HitsInRange :
          /\ hits[j].pix = hits[k].pix
          /\ hits[j].vox # hits[k].vox
          /\ inp.pix[hits[j].pix].wght > 0
    /\ \E k \in 1..Len(hits) :
          /\ hits[k].vox = OutOfRange
          /\ inp.pix[hits[k].pix].wght > 0
          /\ inp.pix[hits[k].pix].sci > 0

\* ------------------------------------------------------------------------
\* Properties of the common wavelength range
\* ------------------------------------------------------------------------
\* The (frame, slit) rows of mnmx_wv.
Rows(m) == {<<f, s>> : f \in DOMAIN m, s \in DOMAIN m[1]}
IsMaxOfMins(m, x) ==
    /\ \E r \in Rows(m) : m[r[1]][r[2]][1] = x
    /\ \A r \in Rows(m) : m[r[1]][r[2]][1] <= x
IsMinOfMaxs(m, x) ==
    /\ \E r \in Rows(m) : m[r[1]][r[2]][2] = x
    /\ \A r \in Rows(m) : m[r[1]][r[2]][2] >= x
SeqToSet(q) == {q[k] : k \in DOMAIN q}
IsSpanOf(w, d) ==
    \E i, j \in DOMAIN w : /\ d = w[j] - w[i]
                           /\ \A k \in DOMAIN w : w[i] <= w[k] /\ w[k] <= w[j]

\* C18: the range step of the weight estimator hands get_whitelight_range
\* the maximum of the minimum wavelengths and the minimum of the maximum
\* wavelengths of all frames and slits, which is the range used when the
\* user gives no value; when the minimum of the range used is below its
\* maximum, get_whitelight_pixels selects the pixels strictly inside it and
\* reports the span max - min without a warning; otherwise it selects every
\* pixel, reports max(all_wave) - min(all_wave) and warns, without raising.
C18_CommonRange ==
    (call.fn = "compute_weights_frompix" /\ call.args.whitelight_range.given) =>
        LET a == call.args
            r == call.ret
            user == a.whitelight_range.val
        IN  /\ ~r.raised
            /\ IsMaxOfMins(a.mnmx_wv, r.wavemin)
            /\ IsMinOfMaxs(a.mnmx_wv, r.wavemax)
            /\ (~user[1].given /\ ~user[2].given)
                  => r.min_wl = r.wavemin /\ r.max_wl = r.wavemax
            /\ IF r.min_wl < r.max_wl
               THEN /\ SeqToSet(r.ww) =
                         {k \in 0..(Len(a.all_wave) - 1) :
                              r.min_wl < a.all_wave[k + 1] /\ a.all_wave[k + 1] < r.max_wl}
                    /\ r.wavediff = r.max_wl - r.min_wl
                    /\ r.warnings = {}
               ELSE /\ SeqToSet(r.ww) = 0..(Len(a.all_wave) - 1)
                    /\ IsSpanOf(a.all_wave, r.wavediff)
                    /\ r.warnings = {"overlap"}

\* Two frames that do not overlap, no user value: every pixel is selected.
C18_Witness ==
    /\ call.fn = "compute_weights_frompix"
    /\ call.args.whitelight_range = Some(<<None, None>>)
    /\ Len(call.args.mnmx_wv) = 2
    /\ call.ret.min_wl = 4 /\ call.ret.max_wl = 3
    /\ Len(call.ret.ww) = 4
    /\ call.ret.wavediff = 4
    /\ call.ret.warnings = {"overlap"}

MeasuredFlux(a, w) ==
    SumQ([p \in 1..Len(a.wl_img) |->
            IF a.bpmcube[p][w] = 0
            THEN QMul(QI(a.wl_img[p]), QMul(a.mask[p], a.mask[p])) ELSE Zero])
ApertureFlux(a) == SumQ([p \in 1..Len(a.wl_img) |-> QMul(QI(a.wl_img[p]), a.mask[p])])
Completeness(a, w) == QDiv(MeasuredFlux(a, w), ApertureFlux(a))
Third == Q(1, 3)

Brightest(img, x, y) ==
    \A i \in 1..Len(img) : \A j \in 1..Len(img[i]) : img[i][j] <= img[x + 1][y + 1]
\* Pixel r of frame ff lies in spectral bin k (1-based) of the 3 x 3 box
\* around the spaxel (x, y); the grid has its reference value at pixel -1.
InBoxBin(a, r, ff, k, x, y) ==
    LET lo(f) == CHOOSE m \in {a.pix[p][f] : p \in 1..Len(a.pix)} :
                    \A p \in 1..Len(a.pix) : m <= a.pix[p][f]
    IN  /\ r.idx = ff
        /\ r.ra - lo("ra") - a.dspat \in {a.dspat * d : d \in (x - 1)..(x + 1)}
        /\ r.dec - lo("dec") - a.dspat \in {a.dspat * d : d \in (y - 1)..(y + 1)}
        /\ r.wave - lo("wave") - a.dwv = a.dwv * (k - 1)
PixelsInBoxBin(a, ff, k) ==
    {p \in 1..Len(a.pix) :
        \E x \in 0..2, y \in 0..2 :
            /\ Brightest(a.whitelight_img, x, y)
            /\ InBoxBin(a, a.pix[p], ff, k, x, y)}

\* C22: in compute_weights every value of the per-frame inverse-variance
\* spectrum is finite; for a frame and spectral bin that holds no pixel of the
\* frame inside the 3 x 3 box, and for one that holds a pixel of inverse
\* variance 0, it is exactly 0 and the bin is excluded by mask_stack.
C22_SafeInverseVariance ==
    (call.fn = "compute_weights" /\ ~call.ret.raised) =>
        \A k \in 1..Len(call.ret.ivar_stack) : \A ff \in 1..call.ret.numfiles :
            /\ IsFinite(call.ret.ivar_stack[k][ff])
            /\ (\/ PixelsInBoxBin(call.args, ff - 1, k) = {}
                \/ \E p \in PixelsInBoxBin(call.args, ff - 1, k) : call.args.pix[p].ivar = 0)
                  => /\ call.ret.ivar_stack[k][ff] = Zero
                     /\ ~call.ret.mask_stack[k][ff]

\* One bin of the first frame holds a pixel of inverse variance 0 next to a
\* pixel of positive inverse variance, another bin is empty, another is kept.
C22_Witness ==
    /\ call.fn = "compute_weights" /\ ~call.ret.raised
    /\ \E k \in 1..4 : \E p, q \in PixelsInBoxBin(call.args, 0, k) :
          call.args.pix[p].ivar = 0 /\ call.args.pix[q].ivar > 0
    /\ \E k \in 1..4 : PixelsInBoxBin(call.args, 0, k) = {}
    /\ \E k \in 1..4 : call.ret.mask_stack[k][1]

\* The value at wavelength v of the cubic through the four points
\* (1, y[1]) .. (4, y[4]): the point itself on a node, and at 0 the value
\* that makes the fourth difference vanish.
CubicAt(y, v) ==
    IF v \in 1..4 THEN QI(y[v]) ELSE QI(4 * y[1] - 6 * y[2] + 4 * y[3] - y[4])

\* C27: compute_weights returns one weight per pixel, in the order of the
\* pixels: with numfiles the number of distinct frame indices, a pixel of
\* frame f in 0..numfiles-1 gets frame f's weight spectrum evaluated at its
\* wavelength, and any other pixel keeps the weight 1.
C27_OneWeightPerPixel ==
    (call.fn = "compute_weights" /\ ~call.ret.raised) =>
        LET a == call.args
            numfiles == Cardinality({a.pix[p].idx : p \in 1..Len(a.pix)})
        IN  /\ DOMAIN call.ret.all_wghts = 1..Len(a.pix)
            /\ call.ret.wave_spec = <<QI(1), QI(2), QI(3), QI(4)>>
            /\ \A p \in 1..Len(a.pix) :
                  call.ret.all_wghts[p] =
                      IF a.pix[p].idx >= 0 /\ a.pix[p].idx < numfiles
                      THEN CubicAt(a.weights[a.pix[p].idx + 1], a.pix[p].wave)
                      ELSE One

\* Frames 0 and 2 only: a pixel of frame 2 keeps 1; and a call where a pixel
\* of frame 1 gets a weight that frame 0's spectrum would not give.
C27_Witness ==
    /\ call.fn = "compute_weights" /\ ~call.ret.raised
    /\ \E p \in 1..4 :
          /\ call.args.pix[p].idx = 1
          /\ call.ret.all_wghts[p] # CubicAt(call.args.weights[1], call.args.pix[p].wave)
          /\ call.ret.all_wghts[p] # One
    /\ \E p \in 1..4 : call.args.pix[p].wave = 0 /\ call.ret.all_wghts[p] = QI(-1)

\* ------------------------------------------------------------------------
\* Properties of the life of the cubes
\* ------------------------------------------------------------------------
\* The number of times the subpixels of pixel p have been accumulated.
TimesAccumulated(p) == Cardinality({k \in 1..Len(hits) : hits[k].pix = p})
\* The (frame, slit) pairs of the call select pixel p.
Selected(p) ==
    \E f \in 0..(numframes - 1) :
        /\ all_idx[p] = f
        /\ \E s \in 1..Len(inp.slits.items[f + 1].spat_id) :
              inp.slits.items[f + 1].spat_id[s] = inp.pix[p].spatid
\* The accumulators hold the plain sums of what was histogrammed.
RawSums ==
    \A v \in DOMAIN normcube :
        /\ flxcube[v] = SumOver(HitsIn(v), HitFluxes)
        /\ varcube[v] = SumOver(HitsIn(v), HitVars)
        /\ normcube[v] = SumOver(HitsIn(v), HitWeights)

\* C23: the accumulators start as zero arrays of the grid shape; no pixel is
\* accumulated more than once (its n subpixels once each); as long as pairs
\* remain the accumulators are plain sums; the normalisation is reached only
\* when every selected pixel has been accumulated, and the cubes returned are
\* the plain sums divided once by the weight sum (and its square).
C23_Lifecycle ==
    /\ (pc = "loop" /\ hits = <<>>) =>
          /\ DOMAIN flxcube = Voxels([a \in 1..3 |-> Len(inp.bins[a]) - 1])
          /\ DOMAIN varcube = DOMAIN flxcube /\ DOMAIN normcube = DOMAIN flxcube
          /\ \A v \in DOMAIN flxcube :
                flxcube[v] = Zero /\ varcube[v] = Zero /\ normcube[v] = Zero
    /\ pc \in {"loop", "normalise", "done"} =>
          \A p \in 1..Len(inp.pix) : TimesAccumulated(p) \in {0, NSub}
    /\ pc \in {"loop", "normalise"} => RawSums
    /\ pc \in {"normalise", "done"} =>
          \A p \in 1..Len(inp.pix) : Selected(p) => TimesAccumulated(p) = NSub
    /\ pc = "done" =>
          \A v \in DOMAIN normcube :
             /\ normcube[v] = SumOver(HitsIn(v), HitWeights)
             /\ normcube[v] # Zero =>
                   /\ flxcube[v] = QDiv(SumOver(HitsIn(v), HitFluxes), normcube[v])
                   /\ QMul(QMul(varcube[v], normcube[v]), normcube[v])
                         = SumOver(HitsIn(v), HitVars)

\* A call over two frames of two slits with several subpixels per pixel has
\* returned; every pixel was accumulated once.
C23_Witness ==
    /\ pc = "done"
    /\ numframes = 2
    /\ NSub > 1
    /\ Len(inp.slits.items[1].spat_id) = 2
    /\ \A p \in 1..Len(inp.pix) : TimesAccumulated(p) = NSub
    /\ \E v \in DOMAIN normcube : normcube[v] \notin {Zero, One}

\* ------------------------------------------------------------------------
\* Properties of the sub-offsets
\* ------------------------------------------------------------------------
\* offs are the n offsets (2k+1)/(2n) - 1/2, k = 0..n-1: spaced by 1/n,
\* symmetric about 0 and strictly inside (-1/2, 1/2).
CentredOffsets(offs, n) ==
    /\ Len(offs) = n
    /\ \A k \in 0..(n - 1) :
          /\ offs[k + 1] = QSub(Q(2 * k + 1, 2 * n), Half)
          /\ offs[k + 1] = QNeg(offs[n - k])
          /\ QLt(QNeg(Half), offs[k + 1]) /\ QLt(offs[k + 1], Half)
    /\ \A k \in 1..(n - 1) : QSub(offs[k + 1], offs[k]) = Q(1, n)
    /\ n = 1 => offs = <<Zero>>

\* C24: the offsets subpixellate uses on each axis are the n centred offsets
\* of the axis' factor n (also for the factors up to 8 on the arguments of
\* the call), and a pixel has spec_subpixel * spat_subpixel subpixels.
C24_CentredOffsets ==
    pc \in {"loop", "normalise", "done"} =>
        /\ CentredOffsets(spec_offs(inp), inp.spec_subpixel)
        /\ CentredOffsets(spat_offs(inp), inp.spat_subpixel)
        /\ \A n \in 1..8 :
              /\ CentredOffsets(spec_offs([inp EXCEPT !.spec_subpixel = n]), n)
              /\ CentredOffsets(spat_offs([inp EXCEPT !.spat_subpixel = n]), n)
        /\ Len(spat_x(inp)) = inp.spec_subpixel * inp.spat_subpixel
        /\ Len(spec_y(inp)) = inp.spec_subpixel * inp.spat_subpixel
        /\ {<<spec_y(inp)[e], spat_x(inp)[e]>> : e \in 1..Len(spat_x(inp))}
              = {<<spec_offs(inp)[i], spat_offs(inp)[j]>> :
                    i \in 1..inp.spec_subpixel, j \in 1..inp.spat_subpixel}
        /\ \A p \in 1..Len(inp.pix) :
              TimesAccumulated(p) \in {0, inp.spec_subpixel * inp.spat_subpixel}

\* A call with different factors on the two axes has accumulated pixels.
C24_Witness ==
    /\ pc = "done"
    /\ inp.spec_subpixel = 2 /\ inp.spat_subpixel = 1
    /\ spec_offs(inp) = <<Q(-1, 4), Q(1, 4)>>
    /\ spat_offs(inp) = <<Zero>>
    /\ \E p \in 1..Len(inp.pix) : TimesAccumulated(p) = 2

\* ------------------------------------------------------------------------
\* Properties of the selection of the pixels
\* ------------------------------------------------------------------------
\* np.unique(all_idx).size differs from numframes (lines 1432-1433).
FrameIndexMismatch ==
    /\ \A k \in 1..4 : Collaborators(inp)[k].islist
    /\ \A k \in 2..4 : Len(Collaborators(inp)[k].items) = Len(inp.tilts.items)
    /\ inp.idx_given
    /\ Cardinality({inp.pix[p].idx : p \in 1..Len(inp.pix)}) # Len(inp.tilts.items)
\* Some (frame, slit) pair of the arguments has no pixel in the table.
SomePairEmpty ==
    \E f \in 1..Len(inp.slits.items) :
        \E s \in 1..Len(inp.slits.items[f].spat_id) :
            \A p \in 1..Len(inp.pix) :
                ~(inp.pix[p].idx = f - 1
                  /\ inp.pix[p].spatid = inp.slits.items[f].spat_id[s])

\* C25 as stated: with a number of distinct frame indices other than the
\* number of frames the call never fails.
C25_MismatchNeverFails == FrameIndexMismatch => pc # "raised"

\* C25: with a number of distinct frame indices other than the number of
\* frames the call fails only if some (frame, slit) pair has no pixel (the
\* check itself lets the call through); a pixel is histogrammed only if its
\* frame index is one of 0..numframes-1 and its slit id is in that frame's
\* slit list, and then with all its subpixels; the three accumulators hold
\* the sums over the histogrammed subpixels only.
C25_OnlyMatchedPixels ==
    /\ FrameIndexMismatch /\ pc = "raised" => SomePairEmpty
    /\ pc \in {"loop", "normalise", "done"} =>
          \A p \in 1..Len(inp.pix) : ~Selected(p) => TimesAccumulated(p) = 0
    /\ pc \in {"normalise", "done"} =>
          \A p \in 1..Len(inp.pix) : Selected(p) => TimesAccumulated(p) = NSub
    /\ pc = "normalise" => RawSums

\* A call with more frame indices than frames and a slit that is not in the
\* frame's list has returned: neither kind of unmatched pixel was accumulated.
C25_Witness ==
    /\ pc = "done" /\ FrameIndexMismatch
    /\ \E p, q \in 1..Len(inp.pix) :
          /\ all_idx[p] >= numframes
          /\ all_idx[q] < numframes /\ ~Selected(q)
          /\ TimesAccumulated(p) = 0 /\ TimesAccumulated(q) = 0
    /\ \E p \in 1..Len(inp.pix) : TimesAccumulated(p) = NSub

\* ------------------------------------------------------------------------
\* Properties of the splitting of the flux
\* ------------------------------------------------------------------------
\* The arguments of the call with both subpixel factors 1.
NearestGridPoint(in) == [in EXCEPT !.spec_subpixel = 1, !.spat_subpixel = 1]
\* Every subpixel of every pixel of every pair lands in the voxel the pixel
\* lands in with factors 1.
SubpixelsStayInVoxel(in) ==
    \A k \in 1..Len(LocalPairs(in)) :
        \A t \in 1..(Len(PairPixels(in, LocalIdx(in), LocalPairs(in)[k])) * num_subpixels(in)) :
            SlitAddr(in, PairPixels(in, LocalIdx(in), LocalPairs(in)[k]),
                     LocalPairs(in)[k][1], LocalPairs(in)[k][2])[t]
              = SlitAddr(NearestGridPoint(in),
                         PairPixels(in, LocalIdx(in), LocalPairs(in)[k]),
                         LocalPairs(in)[k][1],
                         LocalPairs(in)[k][2])[((t - 1) \div num_subpixels(in)) + 1]
\* The cubes r and r1 differ only in the variance, which is 1/n of that of r1.
EqualSplit(flx, var, bpm, r1, n) ==
    /\ ~r1.raised
    /\ flx = r1.flxcube
    /\ bpm = r1.bpmcube
    /\ \A v \in DOMAIN var : var[v] = QDiv(r1.varcube[v], QI(n))

\* C26: when all the subpixels of every pixel land in the voxel the pixel
\* lands in with factors 1, the call returns the flux cube and the bad-pixel
\* mask of the call with factors 1, and 1/n of its variance cube,
\* n = spec_subpixel * spat_subpixel.
C26_EqualFluxSplitting ==
    (pc = "done" /\ SubpixelsStayInVoxel(inp)) =>
        EqualSplit(flxcube, varcube, bpmcube, subpixellate(NearestGridPoint(inp)), NSub)

\* A call with more than one subpixel per pixel, all in the pixel's voxel,
\* returned a voxel of nonzero variance.
C26_Witness ==
    /\ pc = "done" /\ NSub > 1
    /\ SubpixelsStayInVoxel(inp)
    /\ \E v \in DOMAIN varcube : varcube[v] # Zero /\ flxcube[v] # Zero
    /\ \E v \in DOMAIN bpmcube : bpmcube[v] = 1

\* ------------------------------------------------------------------------
\* Properties of the grid of the whitelight image of the weight estimator
\* ------------------------------------------------------------------------
\* The user ranges the model hands to compute_weights_frompix.
UserRanges == {a.whitelight_range : a \in {b \in WeightsRangeInputs : b.whitelight_range.given}}
\* The call on the arguments a with the whitelight range r instead.
RangeStepWith(a, r) == compute_weights_frompix(a.mnmx_wv, a.all_wave, r)
ImageArgsWith(a, r) ==
    whitelight_image_args([a EXCEPT !.whitelight_range = r], RangeStepWith(a, r))

\* C28: when the range step of compute_weights_frompix yields a nonzero
\* span, the whitelight image is made from the arguments of the call on a
\* grid of one wavelength bin of origin min(all_wave) and step
\* max(all_wave) - min(all_wave), with factors 1 and combine = True, and the
\* call with any other whitelight_range of nonzero span hands
\* generate_image_subpixel (and so compute_weights) the same grid.
C28_RangeHasNoInfluence ==
    (call.fn = "compute_weights_frompix" /\ call.args.whitelight_range.given
       /\ call.ret.wavediff # 0) =>
        /\ ~call.image.raised
        /\ Len(call.image.voxedge[3]) = 2
        /\ call.image.image_wcs.crval[3] = QI(IntMin(call.args.all_wave))
        /\ call.image.image_wcs.cdelt[3]
             = QI(IntMax(call.args.all_wave) - IntMin(call.args.all_wave))
        /\ \A r \in UserRanges :
              RangeStepWith(call.args, r).wavediff # 0
                 => ImageArgsWith(call.args, r) = call.image

\* A call whose range differs from the one with no user value in the range
\* used, in the pixels inside it and in the span.
C28_Witness ==
    /\ call.fn = "compute_weights_frompix" /\ call.args.whitelight_range.given
    /\ ~call.image.raised
    /\ \E r \in UserRanges :
          /\ RangeStepWith(call.args, r).wavediff # 0
          /\ RangeStepWith(call.args, r).wavediff # call.ret.wavediff
          /\ RangeStepWith(call.args, r).min_wl # call.ret.min_wl
          /\ RangeStepWith(call.args, r).ww # call.ret.ww
          /\ call.ret.wavediff # IntMax(call.args.all_wave) - IntMin(call.args.all_wave)

\* ------------------------------------------------------------------------
\* Properties of the grating correction
\* ------------------------------------------------------------------------
\* [lo, hi] is the range where the wavelengths of both blazes overlap.
IsOverlap(a, lo, hi) ==
    /\ lo = IntLarger(IntMin(a.wave_curr), IntMin(a.wave_ref))
    /\ hi = IntSmaller(IntMax(a.wave_curr), IntMax(a.wave_ref))
\* The two wavelength arrays overlap.
BlazesOverlap(a) ==
    /\ IntMin(a.wave_curr) <= IntMax(a.wave_ref)
    /\ IntMin(a.wave_ref) <= IntMax(a.wave_curr)
\* The 0-based indices of the wavelengths strictly between 10% and 90% of
\* [lo, hi].
InnerPixels(w, lo, hi) ==
    {k \in 0..(Len(w) - 1) :
        10 * (w[k + 1] - lo) > hi - lo /\ 10 * (w[k + 1] - lo) < 9 * (hi - lo)}

\* C29: the scaling range of correct_grating_shift is the overlap of the two
\* blazes, minw = max(min(wave_curr), min(wave_ref)) and
\* maxw = min(max(wave_curr), max(wave_ref)), minw <= maxw when the arrays
\* overlap, and the wavelengths of evaluation between 10% and 90% of the
\* range are those that enter the fit.
C29_FitsOverOverlap ==
    call.fn = "correct_grating_shift" =>
        /\ IsOverlap(call.args, call.ret.minw, call.ret.maxw)
        /\ BlazesOverlap(call.args) => call.ret.minw <= call.ret.maxw
        /\ SeqToSet(call.ret.wblz)
             = InnerPixels(call.args.wave_eval, call.ret.minw, call.ret.maxw)

\* What the code does: the lower end is that of the overlap, the upper end
\* is max(min(wave_curr), max(wave_ref)), so it is the end of the overlap
\* only if the reference blaze ends first; the lower end is never above the
\* upper one, and the pixels strictly between 10% and 90% of this range enter
\* the fit.
GratingRangeOfTheCode ==
    call.fn = "correct_grating_shift" =>
        /\ call.ret.minw = IntLarger(IntMin(call.args.wave_curr), IntMin(call.args.wave_ref))
        /\ call.ret.maxw = IntLarger(IntMin(call.args.wave_curr), IntMax(call.args.wave_ref))
        /\ call.ret.minw <= call.ret.maxw
        /\ (BlazesOverlap(call.args) /\ IntMax(call.args.wave_ref) <= IntMax(call.args.wave_curr))
              => IsOverlap(call.args, call.ret.minw, call.ret.maxw)
        /\ SeqToSet(call.ret.wblz)
             = InnerPixels(call.args.wave_eval, call.ret.minw, call.ret.maxw)
        /\ call.ret.raised <=> call.ret.wblz = <<>>

\* The current blaze ends before the reference blaze and the range runs past
\* its end.
GratingRangePastTheEnd ==
    /\ call.fn = "correct_grating_shift"
    /\ BlazesOverlap(call.args)
    /\ call.ret.maxw > IntMax(call.args.wave_curr)
    /\ ~call.ret.raised

\* ------------------------------------------------------------------------
\* Properties of the cosmic-ray flag
\* ------------------------------------------------------------------------
OtherFlags == {MaskFlags[b] : b \in 1..Len(MaskFlags)} \ {"CR"}

\* C30: after update_mask_cr(crmask_new) the CR bit of fullmask is set on
\* exactly the pixels where crmask_new is true, whatever it was before,
\* every other bit of every pixel is as before, and the same update applied
\* again leaves the mask as it is.
C30_CrFlagReplaced ==
    (call # NoCall /\ call.fn = "update_mask_cr") =>
        /\ DOMAIN call.fullmask = DOMAIN call.before
        /\ \A p \in DOMAIN call.fullmask :
              /\ flagged(call.fullmask[p], "CR") <=> call.args.crmask_new[p]
              /\ \A f \in OtherFlags :
                    flagged(call.fullmask[p], f) <=> flagged(call.before[p], f)
              /\ call.fullmask[p] \in 0..(2 ^ Len(MaskFlags) - 1)
        /\ update_mask_cr(call.fullmask, call.args.crmask_new) = call.fullmask

\* An update that clears the flag of one pixel, sets that of another and
\* keeps the other flags of both.
C30_Witness ==
    /\ call # NoCall /\ call.fn = "update_mask_cr"
    /\ flagged(call.before[1], "CR") /\ ~flagged(call.fullmask[1], "CR")
    /\ ~flagged(call.before[2], "CR") /\ flagged(call.fullmask[2], "CR")
    /\ \E f \in OtherFlags : flagged(call.fullmask[1], f)
    /\ \E f \in OtherFlags : flagged(call.fullmask[2], f)
====
